---------------------------- MODULE Spec2Model ----------------------------
(***************************************************************************)
(* Model of the alternative-sourcing and scoring pipeline of the Vinegar   *)
(* browser extension (background service worker).                          *)
(*                                                                         *)
(* JavaScript strings are modelled as sequences of one-character strings   *)
(* so that toLowerCase, includes, split and the regular expressions of the *)
(* code are computed character by character.                               *)
(***************************************************************************)
EXTENDS Integers, Sequences, FiniteSets, TLC

VARIABLES
    pc,                \* which routine runs and where it stands
    companyData,       \* CompanyAnalysis handed to the scorer
    userPreferences,   \* UserPreferences snapshot handed to the scorer
    scoreResult,       \* result of calculateAlignmentScore
    avoidCheckResult,  \* result of checkAvoidedBrands
    text,              \* raw completion text handed to parseClaudeResponse
    currentYear,       \* new Date().getFullYear()
    parseResult,       \* result of parseClaudeResponse (record or PARSE_ERROR)
    agg,               \* local state of one findLocalAlternatives run
    scrape,            \* fetched page and result of one scrapePriceFromPage call
    online,            \* local state of one findSmallOnlineRetailers run
    handler,           \* local state of one analyzeProduct message handler run
    panel,             \* content script: its globals, the page and its pending work
    stats,             \* background script: stored stats and the handlers of PRODUCT_DETECTED
    popup              \* popup script: its settings object and the stored settings

vars == <<pc, companyData, userPreferences, scoreResult, avoidCheckResult,
          text, currentYear, parseResult, agg, scrape, online, handler,
      panel, stats, popup>>

(***************************************************************************)
(* Bounds of the model.                                                    *)
(***************************************************************************)
MaxAvoided == 2
MaxConcerns == 2
MaxCerts == 2
MaxResp == 2
MaxPlaces == 4

(***************************************************************************)
(* JavaScript string primitives.                                           *)
(***************************************************************************)
UpperLetters ==
    <<"A","B","C","D","E","F","G","H","I","J","K","L","M",
      "N","O","P","Q","R","S","T","U","V","W","X","Y","Z">>
LowerLetters ==
    <<"a","b","c","d","e","f","g","h","i","j","k","l","m",
      "n","o","p","q","r","s","t","u","v","w","x","y","z">>
Digits == <<"0","1","2","3","4","5","6","7","8","9">>

\* Sequences over a pool, of length at most n.
SeqsUpTo(S, n) == UNION {[1..k -> S] : k \in 0..n}

Range(s) == {s[i] : i \in DOMAIN s}

IsDigit(c) == \E i \in 1..10 : Digits[i] = c
DigitValue(c) == (CHOOSE i \in 1..10 : Digits[i] = c) - 1

\* The lower-case letter of every upper-case letter
LowerOf == [c \in Range(UpperLetters) |->
               LowerLetters[CHOOSE i \in 1..26 : UpperLetters[i] = c]]
IsUpper(c) == c \in DOMAIN LowerOf
IsLetter(c) == IsUpper(c) \/ c \in Range(LowerLetters)

\* String.prototype.toLowerCase
LowerChar(c) == IF IsUpper(c) THEN LowerOf[c] ELSE c
RECURSIVE LowerFrom(_, _)
LowerFrom(s, i) ==
    IF i > Len(s) THEN << >> ELSE <<LowerChar(s[i])>> \o LowerFrom(s, i + 1)
toLowerCase(s) == LowerFrom(s, 1)

\* String.prototype.includes
includes(s, sub) ==
    \E i \in 0..(Len(s) - Len(sub)) : \A j \in 1..Len(sub) : s[i + j] = sub[j]

\* s.split(' ')[0]: the text before the first space
FirstWord(s) ==
    IF \E i \in 1..Len(s) : s[i] = " "
    THEN SubSeq(s, 1, (CHOOSE i \in 1..Len(s) :
                          s[i] = " " /\ \A j \in 1..(i - 1) : s[j] # " ") - 1)
    ELSE s

(***************************************************************************)
(* String literals of the code.                                            *)
(***************************************************************************)
kw ==
    [mega |-> <<"m","e","g","a">>,
     gt100b |-> <<">","1","0","0","b">>,
     large |-> <<"l","a","r","g","e">>,
     from10b_to100b |-> <<"1","0","b","-","1","0","0","b">>,
     medium |-> <<"m","e","d","i","u","m">>,
     from1b_to10b |-> <<"1","b","-","1","0","b">>,
     small |-> <<"s","m","a","l","l">>,
     lt1b |-> <<"<","1","b">>,
     publicly_traded |-> <<"p","u","b","l","i","c","l","y","-","t","r","a","d","e","d">>,
     private_equity |-> <<"p","r","i","v","a","t","e"," ","e","q","u","i","t","y">>,
     family |-> <<"f","a","m","i","l","y">>,
     co_op |-> <<"c","o","-","o","p">>,
     b_corp |-> <<"b","-","c","o","r","p">>,
     labor |-> <<"l","a","b","o","r">>,
     worker |-> <<"w","o","r","k","e","r">>,
     wage |-> <<"w","a","g","e">>,
     environment |-> <<"e","n","v","i","r","o","n","m","e","n","t">>,
     pollution |-> <<"p","o","l","l","u","t","i","o","n">>,
     climate |-> <<"c","l","i","m","a","t","e">>,
     monopoly |-> <<"m","o","n","o","p","o","l","y">>,
     anti_competitive |-> <<"a","n","t","i","-","c","o","m","p","e","t","i","t","i","v","e">>,
     antitrust |-> <<"a","n","t","i","t","r","u","s","t">>,
     political |-> <<"p","o","l","i","t","i","c","a","l">>,
     lobbying |-> <<"l","o","b","b","y","i","n","g">>,
     controversy |-> <<"c","o","n","t","r","o","v","e","r","s","y">>,
     b_corp_sp |-> <<"b"," ","c","o","r","p">>,
     fair_trade |-> <<"f","a","i","r"," ","t","r","a","d","e">>,
     carbon_neutral |-> <<"c","a","r","b","o","n"," ","n","e","u","t","r","a","l">>,
     carbon_neutral_h |-> <<"c","a","r","b","o","n","-","n","e","u","t","r","a","l">>,
     living_wage |-> <<"l","i","v","i","n","g"," ","w","a","g","e">>,
     example |-> <<"e","x","a","m","p","l","e">>,
     placeholder |-> <<"p","l","a","c","e","h","o","l","d","e","r">>,
     unknown |-> <<"u","n","k","n","o","w","n">>,
     luggage |-> <<"l","u","g","g","a","g","e">>,
     bag |-> <<"b","a","g">>,
     travel |-> <<"t","r","a","v","e","l">>,
     bottle |-> <<"b","o","t","t","l","e">>,
     drinkware |-> <<"d","r","i","n","k","w","a","r","e">>,
     furniture |-> <<"f","u","r","n","i","t","u","r","e">>,
     sofa |-> <<"s","o","f","a">>,
     couch |-> <<"c","o","u","c","h">>,
     plumbing |-> <<"p","l","u","m","b","i","n","g">>,
     supply |-> <<"s","u","p","p","l","y">>,
     local_store |-> <<"L","o","c","a","l"," ","S","t","o","r","e">>,
     undefined |-> <<"u","n","d","e","f","i","n","e","d">>]


(***************************************************************************)
(* Values the scorer is run on.                                            *)
(***************************************************************************)
\* Field values of a company analysis and avoided brands.
Cv ==
    [size_mega_corp |-> <<"m","e","g","a","-","c","o","r","p">>,
     size_large_corp |-> <<"l","a","r","g","e","-","c","o","r","p">>,
     size_medium_corp |-> <<"m","e","d","i","u","m","-","c","o","r","p">>,
     size_small_business |-> <<"s","m","a","l","l","-","b","u","s","i","n","e","s","s">>,
     own_publicly_traded |-> <<"p","u","b","l","i","c","l","y","-","t","r","a","d","e","d">>,
     own_private_equity |-> <<"p","r","i","v","a","t","e","-","e","q","u","i","t","y">>,
     own_private_equity_sp |-> <<"P","r","i","v","a","t","e"," ","E","q","u","i","t","y">>,
     own_family_owned |-> <<"f","a","m","i","l","y","-","o","w","n","e","d">>,
     own_co_op |-> <<"c","o","-","o","p">>,
     own_b_corp |-> <<"b","-","c","o","r","p">>,
     name_amazon_inc |-> <<"A","m","a","z","o","n",".","c","o","m"," ","I","n","c">>,
     name_acme |-> <<"A","c","m","e">>,
     sub_zappos |-> <<"Z","a","p","p","o","s">>,
     sub_whole_foods |-> <<"W","h","o","l","e"," ","F","o","o","d","s">>,
     brand_amazon |-> <<"A","m","a","z","o","n">>,
     brand_zappos |-> <<"z","a","p","p","o","s">>,
     brand_acme_tools |-> <<"A","c","m","e"," ","T","o","o","l","s">>,
     concern_wage |-> <<"W","a","g","e"," ","t","h","e","f","t">>,
     concern_labor |-> <<"L","A","B","O","R"," ","a","b","u","s","e">>,
     concern_climate_lobbying |-> <<"c","l","i","m","a","t","e"," ","l","o","b","b","y","i","n","g">>,
     concern_antitrust |-> <<"A","n","t","i","t","r","u","s","t"," ","s","u","i","t">>,
     concern_recall |-> <<"p","r","o","d","u","c","t"," ","r","e","c","a","l","l">>,
     cert_b_corp |-> <<"B"," ","C","o","r","p">>,
     cert_fair_trade |-> <<"F","a","i","r"," ","T","r","a","d","e">>,
     cert_carbon |-> <<"C","a","r","b","o","n","-","N","e","u","t","r","a","l">>,
     cert_living_wage |-> <<"L","i","v","i","n","g"," ","W","a","g","e">>,
     cert_iso |-> <<"I","S","O"," ","9","0","0","1">>]

\* companySize values of the analysis prompt, and the parser's default
CompanySizes ==
    {Cv.size_mega_corp, Cv.size_large_corp, Cv.size_medium_corp, Cv.size_small_business,
     kw.unknown}
\* ownershipType values of the analysis prompt, the parser's default, and the
\* spelling with a space
OwnershipTypes ==
    {Cv.own_publicly_traded, Cv.own_private_equity, Cv.own_family_owned, Cv.own_co_op,
     Cv.own_b_corp, kw.unknown, Cv.own_private_equity_sp}
ParentCompanies == {Cv.name_amazon_inc, Cv.name_acme}
SubsidiaryLists == {<< >>, <<Cv.sub_whole_foods, Cv.sub_zappos>>}
BrandPool == {Cv.brand_amazon, Cv.brand_zappos, Cv.brand_acme_tools}
ConcernPool ==
    {Cv.concern_wage, Cv.concern_labor, Cv.concern_climate_lobbying, Cv.concern_antitrust,
     Cv.concern_recall}
CertPool == {Cv.cert_b_corp, Cv.cert_fair_trade, Cv.cert_carbon, Cv.cert_living_wage, Cv.cert_iso}
\* userPreferences.sustainableProducts: true, false or not set
SustainableValues == {"true", "false", "undefined"}

(***************************************************************************)
(* calculateAlignmentScore: every rule changes the running score and       *)
(* pushes a breakdown entry, as two separate statements of the code.       *)
(***************************************************************************)
\* A breakdown entry {reason, change}; arg is the value interpolated into the
\* reason template (the avoided brand), << >> when the reason is a literal.
Entry(reason, arg, change) == [reason |-> reason, arg |-> arg, change |-> change]

\* score += delta; breakdown.push(entry)
Fire(acc, delta, entry) ==
    [acc EXCEPT !.score = @ + delta, !.breakdown = Append(@, entry)]

\* The reasons of the score breakdown.
Reasons ==
    [MEGA |-> "Mega-corporation (>$100B revenue)",
     LARGE |-> "Large corporation ($10B-$100B)",
     MEDIUM |-> "Medium corporation ($1B-$10B)",
     SMALL |-> "Small business (<$1B)",
     PUBLIC_MEGA |-> "Publicly traded mega-corp",
     PRIVATE_EQUITY |-> "Private equity owned",
     FAMILY |-> "Family-owned business",
     COOP |-> "Co-op or B-Corp structure",
     AVOID |-> "On your avoid list: ",
     AVOID_PARENT |-> "Parent company on avoid list: ",
     LABOR |-> "Documented labor concerns",
     ENV |-> "Environmental violations",
     ANTICOMP |-> "Anti-competitive practices",
     POLITICAL |-> "Political controversies",
     CERT_BCORP |-> "B-Corp certified",
     CERT_FAIR |-> "Fair Trade certified",
     CERT_CARBON |-> "Carbon neutral commitment",
     CERT_LIVING |-> "Living wage employer"]

\* Mutant of SizeRule: the small-business bonus is added to the score but not
\* pushed to the breakdown.
SizeRule_UnloggedBonus(acc, cd) ==
    LET companySize == toLowerCase(cd.companySize)
    IN  IF includes(companySize, kw.mega) \/ includes(companySize, kw.gt100b)
        THEN Fire(acc, -15, Entry(Reasons.MEGA, << >>, -15))
        ELSE IF includes(companySize, kw.large) \/ includes(companySize, kw.from10b_to100b)
        THEN Fire(acc, -10, Entry(Reasons.LARGE, << >>, -10))
        ELSE IF includes(companySize, kw.medium) \/ includes(companySize, kw.from1b_to10b)
        THEN Fire(acc, -5, Entry(Reasons.MEDIUM, << >>, -5))
        ELSE IF includes(companySize, kw.small) \/ includes(companySize, kw.lt1b)
        THEN [acc EXCEPT !.score = @ + 10]
        ELSE acc

\* Company Size Penalty
SizeRule(acc, cd) ==
    LET companySize == toLowerCase(cd.companySize)
    IN  IF includes(companySize, kw.mega) \/ includes(companySize, kw.gt100b)
        THEN Fire(acc, -15, Entry(Reasons.MEGA, << >>, -15))
        ELSE IF includes(companySize, kw.large) \/ includes(companySize, kw.from10b_to100b)
        THEN Fire(acc, -10, Entry(Reasons.LARGE, << >>, -10))
        ELSE IF includes(companySize, kw.medium) \/ includes(companySize, kw.from1b_to10b)
        THEN Fire(acc, -5, Entry(Reasons.MEDIUM, << >>, -5))
        ELSE IF includes(companySize, kw.small) \/ includes(companySize, kw.lt1b)
        THEN Fire(acc, 10, Entry(Reasons.SMALL, << >>, 10))
        ELSE acc

\* Ownership Structure
OwnershipRule(acc, cd) ==
    LET companySize == toLowerCase(cd.companySize)
        ownership == toLowerCase(cd.ownershipType)
    IN  IF includes(ownership, kw.publicly_traded) /\ includes(companySize, kw.mega)
        THEN Fire(acc, -10, Entry(Reasons.PUBLIC_MEGA, << >>, -10))
        ELSE IF includes(ownership, kw.private_equity)
        THEN Fire(acc, -5, Entry(Reasons.PRIVATE_EQUITY, << >>, -5))
        ELSE IF includes(ownership, kw.family)
        THEN Fire(acc, 10, Entry(Reasons.FAMILY, << >>, 10))
        ELSE IF includes(ownership, kw.co_op) \/ includes(ownership, kw.b_corp)
        THEN Fire(acc, 15, Entry(Reasons.COOP, << >>, 15))
        ELSE acc

\* companyData.subsidiaries?.some(sub => sub.toLowerCase().includes(brandLower))
SomeSubsidiaryIncludes(cd, brandLower) ==
    \E k \in 1..Len(cd.subsidiaries) :
        includes(toLowerCase(cd.subsidiaries[k]), brandLower)

\* User's Avoided Brands: the for loop from the i-th avoided brand on
RECURSIVE AvoidLoop(_, _, _, _)
AvoidLoop(acc, cd, avoidedBrands, i) ==
    IF i > Len(avoidedBrands) THEN acc
    ELSE LET avoidedBrand == avoidedBrands[i]
             brandLower == toLowerCase(avoidedBrand)
             companyName == toLowerCase(cd.parentCompany)
         IN  IF includes(companyName, brandLower)
             THEN Fire(acc, -30, Entry(Reasons.AVOID, avoidedBrand, -30))
             ELSE IF SomeSubsidiaryIncludes(cd, brandLower)
             THEN Fire(acc, -25, Entry(Reasons.AVOID_PARENT, avoidedBrand, -25))
             ELSE AvoidLoop(acc, cd, avoidedBrands, i + 1)

\* Mutant of AvoidRule: the loop lacks its break statements, so every matching
\* avoided brand is penalised.
RECURSIVE AvoidLoop_NoBreak(_, _, _, _)
AvoidLoop_NoBreak(acc, cd, avoidedBrands, i) ==
    IF i > Len(avoidedBrands) THEN acc
    ELSE LET avoidedBrand == avoidedBrands[i]
             brandLower == toLowerCase(avoidedBrand)
             companyName == toLowerCase(cd.parentCompany)
             next == IF includes(companyName, brandLower)
                     THEN Fire(acc, -30, Entry(Reasons.AVOID, avoidedBrand, -30))
                     ELSE IF SomeSubsidiaryIncludes(cd, brandLower)
                     THEN Fire(acc, -25, Entry(Reasons.AVOID_PARENT, avoidedBrand, -25))
                     ELSE acc
         IN  AvoidLoop_NoBreak(next, cd, avoidedBrands, i + 1)
AvoidRule_NoBreak(acc, cd, prefs) == AvoidLoop_NoBreak(acc, cd, prefs.avoidedBrands, 1)

AvoidRule(acc, cd, prefs) == AvoidLoop(acc, cd, prefs.avoidedBrands, 1)

IsLaborConcern(c) ==
    includes(c, kw.labor) \/ includes(c, kw.worker) \/ includes(c, kw.wage)
IsEnvConcern(c) ==
    includes(c, kw.environment) \/ includes(c, kw.pollution) \/ includes(c, kw.climate)
IsAntiCompetitiveConcern(c) ==
    includes(c, kw.monopoly) \/ includes(c, kw.anti_competitive)
        \/ includes(c, kw.antitrust)
IsPoliticalConcern(c) ==
    includes(c, kw.political) \/ includes(c, kw.lobbying) \/ includes(c, kw.controversy)

\* Mutant of ConcernStep: the "=== 0" tests of the four flags are missing, so a
\* category fires for every matching concern.
ConcernStep_NoFlags(st, concern) ==
    LET concernLower == toLowerCase(concern)
        s1 == IF IsLaborConcern(concernLower)
              THEN <<Fire(st[1], -10, Entry(Reasons.LABOR, << >>, -10)), st[2]>> ELSE st
        s2 == IF IsEnvConcern(concernLower)
              THEN <<Fire(s1[1], -10, Entry(Reasons.ENV, << >>, -10)), s1[2]>> ELSE s1
        s3 == IF IsAntiCompetitiveConcern(concernLower)
              THEN <<Fire(s2[1], -5, Entry(Reasons.ANTICOMP, << >>, -5)), s2[2]>> ELSE s2
        s4 == IF IsPoliticalConcern(concernLower)
              THEN <<Fire(s3[1], -5, Entry(Reasons.POLITICAL, << >>, -5)), s3[2]>> ELSE s3
    IN  s4

\* One iteration of the Documented Issues loop. fl holds the four flags
\* laborIssues, envIssues, antiCompetitive, political; st is <<acc, fl>>.
ConcernStep(st, concern) ==
    LET concernLower == toLowerCase(concern)
        s1 == IF IsLaborConcern(concernLower) /\ st[2].laborIssues = 0
              THEN <<Fire(st[1], -10, Entry(Reasons.LABOR, << >>, -10)),
                     [st[2] EXCEPT !.laborIssues = 1]>>
              ELSE st
        s2 == IF IsEnvConcern(concernLower) /\ s1[2].envIssues = 0
              THEN <<Fire(s1[1], -10, Entry(Reasons.ENV, << >>, -10)),
                     [s1[2] EXCEPT !.envIssues = 1]>>
              ELSE s1
        s3 == IF IsAntiCompetitiveConcern(concernLower) /\ s2[2].antiCompetitive = 0
              THEN <<Fire(s2[1], -5, Entry(Reasons.ANTICOMP, << >>, -5)),
                     [s2[2] EXCEPT !.antiCompetitive = 1]>>
              ELSE s2
        s4 == IF IsPoliticalConcern(concernLower) /\ s3[2].political = 0
              THEN <<Fire(s3[1], -5, Entry(Reasons.POLITICAL, << >>, -5)),
                     [s3[2] EXCEPT !.political = 1]>>
              ELSE s3
    IN  s4

RECURSIVE ConcernLoop(_, _, _)
ConcernLoop(st, concerns, i) ==
    IF i > Len(concerns) THEN st
    ELSE ConcernLoop(ConcernStep(st, concerns[i]), concerns, i + 1)

\* Documented Issues
ConcernRule(acc, cd) ==
    ConcernLoop(<<acc, [laborIssues |-> 0, envIssues |-> 0,
                        antiCompetitive |-> 0, political |-> 0]>>,
                cd.factualConcerns, 1)[1]

\* One iteration of the certifications loop
CertStep(acc, cert) ==
    LET certLower == toLowerCase(cert)
    IN  IF includes(certLower, kw.b_corp) \/ includes(certLower, kw.b_corp_sp)
        THEN Fire(acc, 15, Entry(Reasons.CERT_BCORP, << >>, 15))
        ELSE IF includes(certLower, kw.fair_trade)
        THEN Fire(acc, 10, Entry(Reasons.CERT_FAIR, << >>, 10))
        ELSE IF includes(certLower, kw.carbon_neutral)
                \/ includes(certLower, kw.carbon_neutral_h)
        THEN Fire(acc, 5, Entry(Reasons.CERT_CARBON, << >>, 5))
        ELSE IF includes(certLower, kw.living_wage)
        THEN Fire(acc, 10, Entry(Reasons.CERT_LIVING, << >>, 10))
        ELSE acc

RECURSIVE CertLoop(_, _, _)
CertLoop(acc, certifications, i) ==
    IF i > Len(certifications) THEN acc
    ELSE CertLoop(CertStep(acc, certifications[i]), certifications, i + 1)

\* Mutant of CertRule: the sustainable-products preference is not consulted.
CertRule_Always(acc, cd, prefs) == CertLoop(acc, cd.certifications, 1)

\* Certifications (bonus points) - only if user prefers sustainable products
CertRule(acc, cd, prefs) ==
    LET sustainableProducts == prefs.sustainableProducts # "false"
    IN  IF sustainableProducts THEN CertLoop(acc, cd.certifications, 1) ELSE acc

Max(a, b) == IF a >= b THEN a ELSE b
Min(a, b) == IF a <= b THEN a ELSE b

\* Clamp score between 0 and 100
ClampScore(score) == Max(0, Min(100, score))

calculateAlignmentScore(cd, prefs) ==
    LET a0 == [score |-> 100, breakdown |-> << >>]
        a1 == SizeRule(a0, cd)
        a2 == OwnershipRule(a1, cd)
        a3 == AvoidRule(a2, cd, prefs)
        a4 == ConcernRule(a3, cd)
        a5 == CertRule(a4, cd, prefs)
    IN  [score |-> ClampScore(a5.score), breakdown |-> a5.breakdown]

(***************************************************************************)
(* checkAvoidedBrands                                                      *)
(***************************************************************************)
AV_NONE == ""
AV_PARENT == "You've chosen to avoid "
AV_SUBSIDIARY == "Parent company of  (which you've chosen to avoid)"

\* The subsidiaries loop for one avoided brand: does some subsidiary match
SubsidiaryMatches(cd, brandLower) ==
    \E k \in 1..Len(cd.subsidiaries) :
        LET subsidiary == toLowerCase(cd.subsidiaries[k])
        IN  includes(subsidiary, brandLower)
                \/ includes(brandLower, FirstWord(subsidiary))

RECURSIVE CheckLoop(_, _, _)
CheckLoop(cd, avoidedBrands, i) ==
    IF i > Len(avoidedBrands)
    THEN [isOnAvoidList |-> FALSE, reason |-> AV_NONE, arg |-> << >>]
    ELSE LET avoidedBrand == avoidedBrands[i]
             brandLower == toLowerCase(avoidedBrand)
             companyName == toLowerCase(cd.parentCompany)
         IN  IF includes(companyName, brandLower)
                    \/ includes(brandLower, FirstWord(companyName))
             THEN [isOnAvoidList |-> TRUE, reason |-> AV_PARENT, arg |-> avoidedBrand]
             ELSE IF SubsidiaryMatches(cd, brandLower)
             THEN [isOnAvoidList |-> TRUE, reason |-> AV_SUBSIDIARY,
                   arg |-> avoidedBrand]
             ELSE CheckLoop(cd, avoidedBrands, i + 1)

\* Mutant of checkAvoidedBrands: the negative return sits inside the loop, so
\* only the first avoided brand is examined.
checkAvoidedBrands_FirstOnly(cd, avoidedBrands) ==
    IF Len(avoidedBrands) = 0
    THEN [isOnAvoidList |-> FALSE, reason |-> AV_NONE, arg |-> << >>]
    ELSE CheckLoop(cd, <<avoidedBrands[1]>>, 1)

checkAvoidedBrands(cd, avoidedBrands) ==
    IF Len(avoidedBrands) = 0
    THEN [isOnAvoidList |-> FALSE, reason |-> AV_NONE, arg |-> << >>]
    ELSE CheckLoop(cd, avoidedBrands, 1)

(***************************************************************************)
(* The scoring part of analyzeProduct: the avoid-list double check, then   *)
(* the alignment score, on a parsed CompanyAnalysis.                       *)
(***************************************************************************)
Idle == "idle"
NotRun == [ran |-> FALSE]

Analysis(sz, ow, pn, subs, fc, certs) ==
    [companySize |-> sz, ownershipType |-> ow, parentCompany |-> pn,
     subsidiaries |-> subs, factualConcerns |-> fc, certifications |-> certs]

\* userPreferences.avoidedBrands || [] : a missing list reads as the empty one
Prefs(avoided, sust) == [avoidedBrands |-> avoided, sustainableProducts |-> sust]

SizeOwnershipSamples ==
    {<<kw.unknown, kw.unknown>>, <<Cv.size_small_business, Cv.own_co_op>>,
     <<Cv.size_mega_corp, Cv.own_publicly_traded>>}
ParentAvoidSamples == {<<Cv.name_acme, << >> >>, <<Cv.name_amazon_inc, <<Cv.brand_amazon>> >>}

\* Every size, ownership, parent, subsidiary list and avoid list
AvoidInputs ==
    \E sz \in CompanySizes, ow \in OwnershipTypes, pn \in ParentCompanies,
       subs \in SubsidiaryLists, av \in SeqsUpTo(BrandPool, MaxAvoided),
       certs \in {<< >>, <<Cv.cert_fair_trade>>}, sust \in SustainableValues :
        /\ companyData = Analysis(sz, ow, pn, subs, << >>, certs)
        /\ userPreferences = Prefs(av, sust)

\* Every list of concerns
ConcernInputs ==
    \E so \in SizeOwnershipSamples, pa \in ParentAvoidSamples,
       fc \in SeqsUpTo(ConcernPool, MaxConcerns),
       certs \in {<< >>, <<Cv.cert_b_corp, Cv.cert_living_wage>>},
       sust \in SustainableValues :
        /\ companyData = Analysis(so[1], so[2], pa[1], << >>, fc, certs)
        /\ userPreferences = Prefs(pa[2], sust)

\* Every list of certifications
CertInputs ==
    \E so \in SizeOwnershipSamples, pa \in ParentAvoidSamples,
       fc \in {<< >>, <<Cv.concern_labor, Cv.concern_climate_lobbying>>},
       certs \in SeqsUpTo(CertPool, MaxCerts), sust \in SustainableValues :
        /\ companyData = Analysis(so[1], so[2], pa[1], << >>, fc, certs)
        /\ userPreferences = Prefs(pa[2], sust)

InitScore ==
    /\ pc = "check"
    /\ (AvoidInputs \/ ConcernInputs \/ CertInputs)
    /\ scoreResult = NotRun
    /\ avoidCheckResult = NotRun
    /\ text = Idle
    /\ currentYear = Idle
    /\ parseResult = Idle
    /\ agg = Idle
    /\ scrape = Idle
    /\ online = Idle
    /\ handler = Idle
    /\ panel = Idle
    /\ stats = Idle
    /\ popup = Idle

\* analyzeProduct: "Check if company is on user's avoid list"
CheckAvoidedBrandsStep ==
    /\ pc = "check"
    /\ LET r == checkAvoidedBrands(companyData, userPreferences.avoidedBrands)
       IN  /\ avoidCheckResult' = [ran |-> TRUE] @@ r
           /\ companyData' =
                IF r.isOnAvoidList
                THEN companyData @@
                     [isOnAvoidList |-> TRUE,
                      avoidReason |-> [reason |-> r.reason, arg |-> r.arg]]
                ELSE companyData
    /\ pc' = "score"
    /\ UNCHANGED <<userPreferences, scoreResult, text, currentYear, parseResult, agg,
                   scrape, online, handler,
      panel, stats, popup>>

\* analyzeProduct: "Calculate alignment score using transparent algorithm"
CalculateAlignmentScoreStep ==
    /\ pc = "score"
    /\ scoreResult' =
         [ran |-> TRUE] @@ calculateAlignmentScore(companyData, userPreferences)
    /\ pc' = "scored"
    /\ UNCHANGED <<companyData, userPreferences, avoidCheckResult, text,
                   currentYear, parseResult, agg, scrape, online, handler,
      panel, stats, popup>>

NextScore == CheckAvoidedBrandsStep \/ CalculateAlignmentScoreStep

SpecScore == InitScore /\ [][NextScore]_vars

(***************************************************************************)
(* parseClaudeResponse and validateAndCleanData.                           *)
(*                                                                         *)
(* The completion text is a sequence of lexical tokens: whitespace, the    *)
(* code-fence marker ```, words, the JSON punctuation, JSON literals and   *)
(* the members "key": value of an object.  JavaScript values are tagged    *)
(* with their type, as typeof and Array.isArray see them.                  *)
(***************************************************************************)
JUndefined == [t |-> "undefined"]
JNull == [t |-> "null"]
JStr(s) == [t |-> "string", v |-> s]
JNum(n) == [t |-> "number", v |-> n]
JArr(a) == [t |-> "array", v |-> a]
JObj(f) == [t |-> "object", v |-> f]
JBool(b) == [t |-> "boolean", v |-> b]

\* !value
Falsy(x) ==
    \/ x.t \in {"undefined", "null"}
    \/ x.t = "string" /\ x.v = << >>
    \/ x.t = "number" /\ x.v = 0

TokWs(c) == [k |-> "ws", c |-> c]
TokFence == [k |-> "fence"]
TokWord(w) == [k |-> "word", v |-> w]
TokPunct(c) == [k |-> "punct", c |-> c]
TokLit(x) == [k |-> "literal", value |-> x]
TokMember(key, x) == [k |-> "member", key |-> key, value |-> x]
SP == TokWs(" ")
NL == TokWs("\n")

RECURSIVE DropLeadingWs(_)
DropLeadingWs(s) ==
    IF s # << >> /\ Head(s).k = "ws" THEN DropLeadingWs(Tail(s)) ELSE s
RECURSIVE DropTrailingWs(_)
DropTrailingWs(s) ==
    IF s # << >> /\ s[Len(s)].k = "ws"
    THEN DropTrailingWs(SubSeq(s, 1, Len(s) - 1)) ELSE s

\* String.prototype.trim
trim(s) == DropTrailingWs(DropLeadingWs(s))

\* cleanText.replace(/^```json\s*/i, '')
ReplaceJsonFence(s) ==
    IF Len(s) >= 2 /\ s[1].k = "fence" /\ s[2].k = "word"
          /\ toLowerCase(s[2].v) = <<"j","s","o","n">>
    THEN DropLeadingWs(SubSeq(s, 3, Len(s)))
    ELSE s

\* cleanText.replace(/^```\s*/, '')
ReplaceOpeningFence(s) ==
    IF s # << >> /\ s[1].k = "fence" THEN DropLeadingWs(Tail(s)) ELSE s

\* cleanText.replace(/```\s*$/, '')
ReplaceClosingFence(s) ==
    LET body == DropTrailingWs(s)
    IN  IF body # << >> /\ body[Len(body)].k = "fence"
        THEN SubSeq(body, 1, Len(body) - 1)
        ELSE s

\* obj[key]
Get(obj, key) == IF key \in DOMAIN obj THEN obj[key] ELSE JUndefined
\* obj[key] = x
Put(obj, key, x) ==
    [n \in DOMAIN obj \cup {key} |-> IF n = key THEN x ELSE obj[n]]

EmptyObject == [n \in {} |-> JUndefined]

\* The object built from the members of a token sequence, a later member
\* replacing an earlier one of the same key
RECURSIVE ObjectOf(_, _)
ObjectOf(members, obj) ==
    IF members = << >> THEN obj
    ELSE ObjectOf(Tail(members), Put(obj, Head(members).key, Head(members).value))

\* JSON.parse: [ok |-> TRUE, value] or [ok |-> FALSE] for a SyntaxError.
\* Whitespace may separate the tokens; the text is one literal, or an object
\* "{" member ("," member)* "}".
JSONParse(s) ==
    LET u == SelectSeq(s, LAMBDA tok : tok.k # "ws")
        inner == SubSeq(u, 2, Len(u) - 1)
        isObject ==
            /\ Len(u) >= 2
            /\ u[1] = TokPunct("{")
            /\ u[Len(u)] = TokPunct("}")
            /\ \/ inner = << >>
               \/ /\ Len(inner) % 2 = 1
                  /\ \A i \in 1..Len(inner) :
                        IF i % 2 = 1 THEN inner[i].k = "member"
                        ELSE inner[i] = TokPunct(",")
    IN  IF Len(u) = 1 /\ u[1].k = "literal" THEN [ok |-> TRUE, value |-> u[1].value]
        ELSE IF isObject
        THEN [ok |-> TRUE,
              value |-> JObj(ObjectOf(SelectSeq(inner, LAMBDA tok : tok.k = "member"),
                                      EmptyObject))]
        ELSE [ok |-> FALSE]

IsWordChar(c) == IsLetter(c) \/ IsDigit(c) \/ c = "_"

\* /\b(19|20)\d{2}\b/ matches at position i of s
YearRegexAt(s, i) ==
    /\ i + 3 <= Len(s)
    /\ \/ s[i] = "1" /\ s[i + 1] = "9"
       \/ s[i] = "2" /\ s[i + 1] = "0"
    /\ IsDigit(s[i + 2]) /\ IsDigit(s[i + 3])
    /\ i = 1 \/ ~IsWordChar(s[i - 1])
    /\ i + 3 = Len(s) \/ ~IsWordChar(s[i + 4])

\* parseInt of the four digits at position i
ParseInt4(s, i) ==
    1000 * DigitValue(s[i]) + 100 * DigitValue(s[i + 1])
        + 10 * DigitValue(s[i + 2]) + DigitValue(s[i + 3])

\* The filter callback of validateAndCleanData for one concern
KeepConcern(concern, year0) ==
    IF concern.t # "string" THEN FALSE
    ELSE LET s == concern.v
             hits == {i \in 1..Len(s) : YearRegexAt(s, i)}
             first == CHOOSE i \in hits : \A j \in hits : i <= j
         IN  IF hits # {} /\ (ParseInt4(s, first) < 1800 \/ ParseInt4(s, first) > year0)
             THEN FALSE
             ELSE IF includes(s, kw.example) \/ includes(s, kw.placeholder)
             THEN FALSE
             ELSE TRUE

\* s.split(/\s+/): i is the position to read next, word the word being read
RECURSIVE SplitWs(_, _, _, _)
SplitWs(s, i, word, inGap) ==
    IF i > Len(s) THEN <<word>>
    ELSE IF s[i] \in {" ", "\n"}
         THEN IF inGap THEN SplitWs(s, i + 1, word, TRUE)
              ELSE <<word>> \o SplitWs(s, i + 1, << >>, TRUE)
         ELSE SplitWs(s, i + 1, Append(word, s[i]), FALSE)

GENERIC_IMPACT ==
    <<"E","x","p","l","o","r","i","n","g"," ","a","l","t","e","r","n",
      "a","t","i","v","e","s"," ","h","e","l","p","s"," ","s","u","p",
      "p","o","r","t"," ","d","i","v","e","r","s","e"," ","b","u","s",
      "i","n","e","s","s"," ","o","w","n","e","r","s","h","i","p"," ",
      "a","n","d"," ","s","t","r","e","n","g","t","h","e","n","s"," ",
      "l","o","c","a","l"," ","e","c","o","n","o","m","i","e","s",".">>

\* "If more than 50% words are repeated, might be hallucination"
IsRepetitive(explanation) ==
    LET words == SplitWs(toLowerCase(explanation), 1, << >>, FALSE)
        uniqueWords == Range(words)
    IN  Len(words) > 10 /\ 2 * Cardinality(uniqueWords) < Len(words)

validateAndCleanData(data, year0) ==
    LET fc == Get(data, "factualConcerns")
        d1 == IF fc.t = "array"
              THEN Put(data, "factualConcerns",
                       JArr(SelectSeq(fc.v, LAMBDA c : KeepConcern(c, year0))))
              ELSE data
        ie == Get(d1, "impactExplanation")
        d2 == IF ie.t = "string" /\ ie.v # << >> /\ IsRepetitive(ie.v)
              THEN Put(d1, "impactExplanation", JStr(GENERIC_IMPACT))
              ELSE d1
    IN  d2

\* parsed[key] = parsed[key] || dflt
OrDefault(obj, key, dflt) ==
    IF Falsy(Get(obj, key)) THEN Put(obj, key, dflt) ELSE obj

ArrayFields ==
    <<"factualConcerns", "certifications", "subsidiaries", "suggestedStoreTypes",
      "suggestedStoreNames", "googlePlacesTypes">>

RECURSIVE EnsureArrays(_, _)
EnsureArrays(obj, i) ==
    IF i > Len(ArrayFields) THEN obj
    ELSE EnsureArrays(OrDefault(obj, ArrayFields[i], JArr(<< >>)), i + 1)

PARSE_ERROR == [ok |-> FALSE, error |-> "PARSE_ERROR"]

\* Mutant of CleanText: the closing ``` marker is not removed.
CleanText_KeepsClosingFence(s) ==
    trim(ReplaceOpeningFence(ReplaceJsonFence(trim(s))))

\* The text with its markdown code block markers removed
CleanText(s) ==
    trim(ReplaceClosingFence(ReplaceOpeningFence(ReplaceJsonFence(trim(s)))))

parseClaudeResponse(s, year0) ==
    LET parsed == JSONParse(CleanText(s))
    IN  IF ~parsed.ok THEN PARSE_ERROR
        ELSE IF parsed.value.t # "object" THEN PARSE_ERROR
        ELSE IF Falsy(Get(parsed.value.v, "parentCompany")) THEN PARSE_ERROR
        ELSE LET p1 == EnsureArrays(parsed.value.v, 1)
                 p2 == OrDefault(p1, "companySize", JStr(kw.unknown))
                 p3 == OrDefault(p2, "ownershipType", JStr(kw.unknown))
             IN  [ok |-> TRUE, value |-> validateAndCleanData(p3, year0)]

(***************************************************************************)
(* Completion texts the parser is run on.                                  *)
(***************************************************************************)
\* Words, concerns and impact explanations of a completion text.
Tv ==
    [w_json |-> <<"j","s","o","n">>,
     w_JSON |-> <<"J","S","O","N">>,
     w_javascript |-> <<"j","a","v","a","s","c","r","i","p","t">>,
     w_here |-> <<"H","e","r","e">>,
     c_1850 |-> <<"1","8","5","0"," ","w","a","g","e"," ","d","i","s","p","u","t","e">>,
     c_2099 |-> <<"2","0","9","9"," ","w","a","g","e"," ","d","i","s","p","u","t","e">>,
     c_1750 |-> <<"1","7","5","0"," ","s","t","r","i","k","e">>,
     c_2019 |-> <<"2","0","1","9"," ","w","a","g","e"," ","t","h","e","f","t">>,
     c_2026 |-> <<"2","0","2","6"," ","r","e","c","a","l","l">>,
     c_mixed |-> <<"2","0","0","1"," ","a","n","d"," ","2","0","9","9">>,
     c_example |-> <<"e","x","a","m","p","l","e"," ","2","0","1","9">>,
     c_plain |-> <<"p","r","i","c","e"," ","f","i","x","i","n","g">>,
     ie_local |-> <<"B","u","y"," ","l","o","c","a","l",".">>,
     ie_rep |-> <<"a"," ","a"," ","a"," ","a"," ","a"," ","a"," ","a"," ","a"," ","a"," ","a"," ","a">>]

\* The years new Date().getFullYear() returns in the runs
CurrentYears == {2025, 2026}

\* Elements of a factualConcerns array: strings and a non-string
ConcernValues ==
    {JStr(Tv.c_1850), JStr(Tv.c_2099), JStr(Tv.c_1750), JStr(Tv.c_2019), JStr(Tv.c_2026),
     JStr(Tv.c_mixed), JStr(Tv.c_example), JStr(Tv.c_plain), JNum(2020)}

\* "{" member "," member ... "}" on lines of its own
RECURSIVE JoinMembers(_)
JoinMembers(members) ==
    IF members = << >> THEN << >>
    ELSE IF Len(members) = 1 THEN <<Head(members), NL>>
    ELSE <<Head(members), TokPunct(","), NL>> \o JoinMembers(Tail(members))
ObjectText(members) == <<TokPunct("{"), NL>> \o JoinMembers(members) \o <<TokPunct("}")>>

M_Parent(x) == TokMember("parentCompany", x)
M_Acme == M_Parent(JStr(Cv.name_acme))

\* What precedes and follows the JSON in a completion
Prefixes ==
    {<< >>, <<SP, NL>>, <<TokFence, TokWord(Tv.w_json), NL>>,
     <<TokFence, TokWord(Tv.w_JSON), SP, NL>>, <<TokFence, NL>>,
     <<TokFence, TokWord(Tv.w_javascript), NL>>, <<TokWord(Tv.w_here), SP>>}
Suffixes == {<< >>, <<NL, TokFence>>, <<NL, TokFence, NL>>, <<NL, TokWord(Tv.w_here)>>}

\* Well-formed and malformed JSON texts
EnvelopeBodies ==
    {ObjectText(<<M_Acme>>),
     ObjectText(<<M_Acme, TokMember("companySize", JStr(Cv.size_mega_corp))>>),
     ObjectText(<< >>),
     ObjectText(<<TokMember("companySize", JStr(Cv.size_mega_corp))>>),
     ObjectText(<<M_Parent(JStr(<< >>))>>),
     ObjectText(<<M_Parent(JNull)>>),
     ObjectText(<<M_Parent(JNum(0))>>),
     ObjectText(<<M_Parent(JStr(<< >>)), M_Acme>>),
     <<TokPunct("{"), M_Acme>>,
     <<TokPunct("{"), M_Acme, TokPunct(","), TokPunct("}")>>,
     <<TokPunct("{"), M_Acme, TokMember("companySize", JStr(Cv.size_mega_corp)),
       TokPunct("}")>>,
     << >>,
     <<TokLit(JNull)>>,
     <<TokLit(JArr(<< >>))>>,
     <<TokLit(JStr(Cv.name_acme))>>}

\* The optional members of a well-formed analysis
ConcernMembers ==
    {<< >>, <<TokMember("factualConcerns", JNull)>>,
     <<TokMember("factualConcerns", JStr(Tv.c_plain))>>}
        \cup {<<TokMember("factualConcerns", JArr(a))>> :
                 a \in SeqsUpTo(ConcernValues, MaxConcerns)}
ImpactMembers ==
    {<< >>, <<TokMember("impactExplanation", JStr(Tv.ie_local))>>,
     <<TokMember("impactExplanation", JStr(Tv.ie_rep))>>}
OtherMembers ==
    {<< >>,
     <<TokMember("companySize", JStr(<< >>)),
       TokMember("subsidiaries", JArr(<<JStr(Cv.sub_zappos)>>))>>,
     <<TokMember("ownershipType", JStr(Cv.own_family_owned)),
       TokMember("certifications", JArr(<<JStr(Cv.cert_b_corp)>>)),
       TokMember("suggestedStoreTypes", JNull)>>}

EnvelopeTexts ==
    \E pre \in Prefixes, body \in EnvelopeBodies, suf \in Suffixes :
        text = pre \o body \o suf

ContentTexts ==
    \E wrap \in {<< << >>, << >> >>,
                 <<<<TokFence, TokWord(Tv.w_json), NL>>, <<NL, TokFence>> >>},
       cm \in ConcernMembers, im \in ImpactMembers, om \in OtherMembers :
        text = wrap[1] \o ObjectText(<<M_Acme>> \o cm \o im \o om) \o wrap[2]

InitParse ==
    /\ pc = "parse"
    /\ (EnvelopeTexts \/ ContentTexts)
    /\ currentYear \in CurrentYears
    /\ parseResult = NotRun
    /\ companyData = Idle
    /\ userPreferences = Idle
    /\ scoreResult = Idle
    /\ avoidCheckResult = Idle
    /\ agg = Idle
    /\ scrape = Idle
    /\ online = Idle
    /\ handler = Idle
    /\ panel = Idle
    /\ stats = Idle
    /\ popup = Idle

\* analyzeProduct: "Parse JSON, stripping markdown if present"
ParseClaudeResponseStep ==
    /\ pc = "parse"
    /\ parseResult' = [ran |-> TRUE] @@ parseClaudeResponse(text, currentYear)
    /\ pc' = "parsed"
    /\ UNCHANGED <<companyData, userPreferences, scoreResult, avoidCheckResult,
                   text, currentYear, agg, scrape, online, handler,
      panel, stats, popup>>

NextParse == ParseClaudeResponseStep

SpecParse == InitParse /\ [][NextParse]_vars

(***************************************************************************)
(* findLocalAlternatives: the Google Places aggregator.                    *)
(*                                                                         *)
(* Coordinates are integers in hundredths of a degree, ratings integers in *)
(* tenths.  Place types and ids are compared only for equality and are     *)
(* plain strings; names, categories and search terms are character         *)
(* sequences.                                                              *)
(***************************************************************************)

bigBoxRetailers ==
    {<<"w","a","l","m","a","r","t">>,
     <<"t","a","r","g","e","t">>,
     <<"b","e","s","t"," ","b","u","y">>,
     <<"b","e","s","t","b","u","y">>,
     <<"a","m","a","z","o","n">>,
     <<"h","o","m","e"," ","d","e","p","o","t">>,
     <<"h","o","m","e","d","e","p","o","t">>,
     <<"l","o","w","e","'","s">>,
     <<"l","o","w","e","s">>,
     <<"c","o","s","t","c","o">>,
     <<"s","a","m","'","s"," ","c","l","u","b">>,
     <<"s","a","m","s"," ","c","l","u","b">>,
     <<"b","j","'","s">>,
     <<"b","j","s"," ","w","h","o","l","e","s","a","l","e">>,
     <<"k","o","h","l","s">>,
     <<"k","o","h","l","'","s">>,
     <<"j","c","p","e","n","n","e","y">>,
     <<"j","c"," ","p","e","n","n","e","y">>,
     <<"s","e","a","r","s">>,
     <<"m","a","c","y","'","s">>,
     <<"m","a","c","y","s">>,
     <<"d","i","c","k","'","s"," ","s","p","o","r","t","i","n","g"," ","g","o","o","d","s">>,
     <<"d","i","c","k","s"," ","s","p","o","r","t","i","n","g"," ","g","o","o","d","s">>,
     <<"s","t","a","p","l","e","s">>,
     <<"o","f","f","i","c","e"," ","d","e","p","o","t">>,
     <<"p","e","t","s","m","a","r","t">>,
     <<"p","e","t","c","o">>,
     <<"c","v","s">>,
     <<"w","a","l","g","r","e","e","n","s">>}

irrelevantTypes ==
    {"library", "school", "university", "hospital", "church", "mosque",
     "synagogue", "cemetery", "park", "stadium", "museum", "art_gallery",
     "movie_theater", "bowling_alley", "casino", "night_club", "bar",
     "furniture_store", "car_dealer", "car_repair", "gas_station",
     "atm", "bank", "insurance_agency", "real_estate_agency"}

\* Object.entries(relevantTypes): store type and its category keywords
relevantTypes ==
    <<<<"sporting_goods_store",
        {<<"w","a","t","e","r"," ","b","o","t","t","l","e">>,
         <<"f","i","t","n","e","s","s">>,
         <<"o","u","t","d","o","o","r">>,
         <<"c","a","m","p","i","n","g">>,
         <<"s","p","o","r","t","s">>}>>,
      <<"clothing_store",
        {<<"c","l","o","t","h","i","n","g">>,
         <<"a","p","p","a","r","e","l">>,
         <<"s","h","i","r","t">>,
         <<"p","a","n","t","s">>,
         <<"d","r","e","s","s">>,
         <<"f","a","s","h","i","o","n">>}>>,
      <<"grocery_store",
        {<<"f","o","o","d">>,
         <<"g","r","o","c","e","r","y">>,
         <<"s","n","a","c","k">>,
         <<"b","e","v","e","r","a","g","e">>,
         <<"c","o","f","f","e","e">>,
         <<"t","e","a">>}>>,
      <<"supermarket",
        {<<"f","o","o","d">>,
         <<"g","r","o","c","e","r","y">>,
         <<"s","n","a","c","k">>,
         <<"b","e","v","e","r","a","g","e">>}>>,
      <<"convenience_store",
        {<<"s","n","a","c","k">>,
         <<"b","e","v","e","r","a","g","e">>,
         <<"c","o","f","f","e","e">>}>>,
      <<"home_goods_store",
        {<<"h","o","m","e">>,
         <<"k","i","t","c","h","e","n">>,
         <<"f","u","r","n","i","t","u","r","e">>,
         <<"d","e","c","o","r">>}>>,
      <<"electronics_store",
        {<<"e","l","e","c","t","r","o","n","i","c","s">>,
         <<"p","h","o","n","e">>,
         <<"c","o","m","p","u","t","e","r">>,
         <<"t","e","c","h">>}>>,
      <<"book_store",
        {<<"b","o","o","k">>,
         <<"r","e","a","d","i","n","g">>,
         <<"m","a","g","a","z","i","n","e">>}>> >>

\* a value of userPreferences.location
Loc(lat, lon) == [t |-> "object", lat |-> lat, lon |-> lon]

City(latMin, latMax, lonMin, lonMax, radius) ==
    [latMin |-> latMin, latMax |-> latMax,
     lonMin |-> lonMin, lonMax |-> lonMax, radius |-> radius]

majorCities ==
    <<City(3720, 3790, -12260, -12170, 5000),
      City(4050, 4090, -7430, -7370, 5000),
      City(3370, 3430, -11870, -11810, 5000),
      City(4160, 4200, -8790, -8750, 5000),
      City(4220, 4250, -7130, -7090, 5000),
      City(4740, 4780, -12250, -12220, 5000)>>

InCity(userLocation, city) ==
    /\ userLocation.lat >= city.latMin /\ userLocation.lat <= city.latMax
    /\ userLocation.lon >= city.lonMin /\ userLocation.lon <= city.lonMax

InCity_Exclusive(userLocation, city) ==
    /\ userLocation.lat > city.latMin /\ userLocation.lat < city.latMax
    /\ userLocation.lon > city.lonMin /\ userLocation.lon < city.lonMax

determineSearchRadius_ExclusiveBounds(userLocation) ==
    IF \E k \in DOMAIN majorCities :
          InCity_Exclusive(userLocation, majorCities[k])
    THEN 5000 ELSE 10000

\* the first matching city decides; 10000 m outside all of them
determineSearchRadius(userLocation) ==
    IF \E k \in DOMAIN majorCities : InCity(userLocation, majorCities[k])
    THEN majorCities[CHOOSE k \in DOMAIN majorCities :
                        /\ InCity(userLocation, majorCities[k])
                        /\ \A j \in 1..(k - 1) :
                              ~InCity(userLocation, majorCities[j])].radius
    ELSE 10000

\* the request body searchPlacesByType posts; includedTypes is not part of it
RequestBody(userLocation, searchTerm, searchRadius) ==
    [textQuery |-> searchTerm, latitude |-> userLocation.lat,
     longitude |-> userLocation.lon, radius |-> searchRadius]

\* What one call of searchPlacesByType returns, by what the provider did.
searchPlacesByType(outcome) ==
    IF outcome.kind # "ok" THEN << >>
    ELSE IF outcome.places.t = "undefined" THEN << >>
    ELSE outcome.places.v

RECURSIVE AddLoop(_, _, _, _)
AddLoop(allPlaces, newPlaces, seenPlaceIds, k) ==
    IF k > Len(newPlaces)
    THEN [allPlaces |-> allPlaces, seenPlaceIds |-> seenPlaceIds]
    ELSE IF newPlaces[k].id \notin seenPlaceIds
         THEN AddLoop(Append(allPlaces, newPlaces[k]), newPlaces,
                      seenPlaceIds \cup {newPlaces[k].id}, k + 1)
         ELSE AddLoop(allPlaces, newPlaces, seenPlaceIds, k + 1)

RECURSIVE AddLoop_SeenNotUpdated(_, _, _, _)
AddLoop_SeenNotUpdated(allPlaces, newPlaces, seenPlaceIds, k) ==
    IF k > Len(newPlaces)
    THEN [allPlaces |-> allPlaces, seenPlaceIds |-> seenPlaceIds]
    ELSE IF newPlaces[k].id \notin seenPlaceIds
         THEN AddLoop_SeenNotUpdated(Append(allPlaces, newPlaces[k]),
                                     newPlaces, seenPlaceIds, k + 1)
         ELSE AddLoop_SeenNotUpdated(allPlaces, newPlaces, seenPlaceIds, k + 1)

addUniquePlaces_SeenNotUpdated(allPlaces, newPlaces, seenPlaceIds) ==
    AddLoop_SeenNotUpdated(allPlaces, newPlaces, seenPlaceIds, 1)

\* the two structures are mutated in place; the result is their new content
addUniquePlaces(allPlaces, newPlaces, seenPlaceIds) ==
    AddLoop(allPlaces, newPlaces, seenPlaceIds, 1)

\* place.displayName : absent, or an object with a text
DisplayName(s) == [t |-> "object", text |-> s]

\* (place.displayName?.text || '')
DisplayText(place) ==
    IF place.displayName.t = "undefined" THEN << >> ELSE place.displayName.text

NoFilters == [exclude |-> {}, excludeNames |-> {}]

LuggageFilters(categoryLower, filters) ==
    IF \/ includes(categoryLower, kw.luggage)
       \/ includes(categoryLower, kw.bag)
       \/ includes(categoryLower, kw.travel)
    THEN [exclude |-> {"furniture_store"},
          excludeNames |-> {kw.furniture, kw.sofa, kw.couch}]
    ELSE filters

BottleFilters(categoryLower, filters) ==
    IF includes(categoryLower, kw.bottle) \/ includes(categoryLower, kw.drinkware)
    THEN [exclude |-> {"plumber", "hardware_store"},
          excludeNames |-> {kw.plumbing, kw.supply}]
    ELSE filters

\* the second assignment overwrites the first
categorySpecificFilters(categoryLower) ==
    BottleFilters(categoryLower, LuggageFilters(categoryLower, NoFilters))

IsClosed(place) ==
    place.businessStatus \in {"CLOSED_PERMANENTLY", "CLOSED_TEMPORARILY"}

IsCurrentRetailer(placeName, currentSiteLower) ==
    /\ currentSiteLower # << >>
    /\ \/ includes(placeName, currentSiteLower)
       \/ includes(currentSiteLower, FirstWord(placeName))

IsBigBox(placeName) ==
    \E retailer \in bigBoxRetailers : includes(placeName, retailer)

\* the predicate of places.filter(...)
KeepPlace(place, categoryLower, currentSiteLower) ==
    \E placeName \in {toLowerCase(DisplayText(place))},
       filters \in {categorySpecificFilters(categoryLower)} :
        LET placeTypes == Range(place.types)
        IN /\ ~IsClosed(place)
           /\ ~IsCurrentRetailer(placeName, currentSiteLower)
           /\ ~IsBigBox(placeName)
           /\ placeTypes \cap irrelevantTypes = {}
           /\ placeTypes \cap filters.exclude = {}
           /\ ~\E keyword \in filters.excludeNames :
                  includes(placeName, keyword)

RECURSIVE TypeScore(_, _, _)
TypeScore(placeTypes, categoryLower, k) ==
    IF k > Len(relevantTypes) THEN 0
    ELSE (IF relevantTypes[k][1] \in placeTypes
          THEN (IF \E keyword \in relevantTypes[k][2] :
                       includes(categoryLower, keyword)
                THEN 10 ELSE 2)
          ELSE 0)
         + TypeScore(placeTypes, categoryLower, k + 1)

RelevanceScore_NoStoreBonus(place, categoryLower) ==
    TypeScore(Range(place.types), categoryLower, 1)

RelevanceScore(place, categoryLower) ==
    TypeScore(Range(place.types), categoryLower, 1)
    + (IF "store" \in Range(place.types) THEN 1 ELSE 0)

\* place.displayName?.text || place.displayName || 'Local Store'
PlaceName(place) ==
    IF place.displayName.t = "undefined" THEN JStr(kw.local_store)
    ELSE IF place.displayName.text # << >> THEN JStr(place.displayName.text)
    ELSE place.displayName

\* the object the map(...) of filterAndScorePlaces builds from a place
ScoredPlace(place, categoryLower) ==
    [relevanceScore |-> RelevanceScore(place, categoryLower),
     name |-> PlaceName(place),
     address |-> IF Falsy(place.formattedAddress)
                    \/ place.formattedAddress = JStr(kw.undefined)
                 THEN JNull ELSE place.formattedAddress,
     rating |-> IF Falsy(place.rating) THEN JNum(40) ELSE place.rating,
     lat |-> IF place.location.t = "undefined" THEN JUndefined
             ELSE JNum(place.location.latitude),
     lon |-> IF place.location.t = "undefined" THEN JUndefined
             ELSE JNum(place.location.longitude),
     placeId |-> place.id,
     type |-> "local",
     typeLabel |-> "Local Business",
     isReal |-> TRUE,
     googleMapsUrl |-> <<"https://www.google.com/maps/place/?q=place_id:",
                         place.id>>] @@ place

RECURSIVE FilterMap(_, _, _, _)
FilterMap(places, categoryLower, currentSiteLower, k) ==
    IF k > Len(places) THEN << >>
    ELSE (IF KeepPlace(places[k], categoryLower, currentSiteLower)
          THEN <<ScoredPlace(places[k], categoryLower)>> ELSE << >>)
         \o FilterMap(places, categoryLower, currentSiteLower, k + 1)

InsertByRelevance_BeforeEqual(s, x) ==
    LET after == {i \in 1..Len(s) : s[i].relevanceScore > x.relevanceScore}
        n == IF after = {} THEN 0
             ELSE CHOOSE i \in after : \A j \in after : j <= i
    IN SubSeq(s, 1, n) \o <<x>> \o SubSeq(s, n + 1, Len(s))

\* position of x in the sorted list s: after every entry that does not score lower
InsertByRelevance(s, x) ==
    LET after == {i \in 1..Len(s) : s[i].relevanceScore >= x.relevanceScore}
        n == IF after = {} THEN 0
             ELSE CHOOSE i \in after : \A j \in after : j <= i
    IN SubSeq(s, 1, n) \o <<x>> \o SubSeq(s, n + 1, Len(s))

\* .sort((a, b) => b.relevanceScore - a.relevanceScore), a stable sort
RECURSIVE SortByRelevance(_, _)
SortByRelevance(s, k) ==
    IF k = 0 THEN << >>
    ELSE InsertByRelevance(SortByRelevance(s, k - 1), s[k])

filterAndScorePlaces(places, productCategory, currentSite) ==
    LET categoryLower == toLowerCase(productCategory)
        currentSiteLower == IF Falsy(currentSite) THEN << >>
                            ELSE toLowerCase(currentSite.v)
        scored == FilterMap(places, categoryLower, currentSiteLower, 1)
    IN SortByRelevance(scored, Len(scored))

\* s.slice(0, n)
SliceTo(s, n) == SubSeq(s, 1, Min(n, Len(s)))

(***************************************************************************)
(* One run of findLocalAlternatives.  The function suspends at each await  *)
(* of a search; a step of the model runs it from one suspension to the     *)
(* next, or to its return.                                                 *)
(***************************************************************************)
\* Search terms, categories, place names, addresses and sites.
Pv ==
    [term_sporting_goods |-> <<"s","p","o","r","t","i","n","g","_","g","o","o","d","s","_","s","t","o","r","e">>,
     term_outdoor |-> <<"o","u","t","d","o","o","r"," ","e","q","u","i","p","m","e","n","t">>,
     term_department |-> <<"d","e","p","a","r","t","m","e","n","t"," ","s","t","o","r","e">>,
     term_rei |-> <<"R","E","I">>,
     term_whole_foods |-> <<"W","h","o","l","e"," ","F","o","o","d","s">>,
     term_patagonia |-> <<"P","a","t","a","g","o","n","i","a">>,
     cat_water_bottles |-> <<"R","e","u","s","a","b","l","e"," ","W","a","t","e","r"," ","B","o","t","t","l","e","s">>,
     cat_travel_luggage |-> <<"T","r","a","v","e","l"," ","L","u","g","g","a","g","e">>,
     pn_rei |-> <<"R","E","I">>,
     pn_rei_coop |-> <<"R","E","I"," ","C","o","-","o","p">>,
     pn_walmart |-> <<"W","a","l","m","a","r","t"," ","S","u","p","e","r","c","e","n","t","e","r">>,
     addr_market_st |-> <<"8","4","0"," ","M","a","r","k","e","t"," ","S","t">>,
     site_target |-> <<"T","a","r","g","e","t">>,
     cat_travel_bottles |-> <<"T","r","a","v","e","l"," ","W","a","t","e","r"," ","B","o","t","t","l","e","s">>,
     pn_summit |-> <<"S","u","m","m","i","t"," ","S","p","o","r","t","s">>,
     pn_library |-> <<"C","i","t","y"," ","L","i","b","r","a","r","y"," ","S","h","o","p">>,
     pn_sofa |-> <<"S","o","f","a"," ","O","u","t","l","e","t">>,
     pn_plumbing |-> <<"A","c","e"," ","P","l","u","m","b","i","n","g"," ","S","u","p","p","l","y">>,
     pn_trail |-> <<"T","r","a","i","l"," ","G","e","a","r">>]

Place(id, displayName, types, businessStatus, rating, formattedAddress, location) ==
    [id |-> id, displayName |-> displayName, types |-> types,
     businessStatus |-> businessStatus, rating |-> rating,
     formattedAddress |-> formattedAddress, location |-> location]

LatLng(latitude, longitude) ==
    [t |-> "object", latitude |-> latitude, longitude |-> longitude]

\* the provider may describe one place differently from one search to the next
PlacePool ==
    {Place("p1", DisplayName(Pv.pn_rei), <<"sporting_goods_store", "store">>,
           "OPERATIONAL", JNum(47), JStr(Pv.addr_market_st), LatLng(3778, -12241)),
     Place("p1", DisplayName(Pv.pn_rei_coop), <<"sporting_goods_store", "store">>,
           "CLOSED_TEMPORARILY", JUndefined, JStr(kw.undefined),
           LatLng(3778, -12241)),
     Place("p2", DisplayName(Pv.pn_walmart), <<"department_store", "store">>,
           "OPERATIONAL", JNum(41), JStr(Pv.addr_market_st), LatLng(3775, -12240)),
     Place("p3", JUndefined, <<"book_store", "store">>,
           "OPERATIONAL", JNum(0), JUndefined, JUndefined)}

\* responses that bring three places at once (maxResultCount is 10)
FullResponses ==
    {<<p, q, r>> : p \in {x \in PlacePool : x.id = "p1"},
                   q \in {x \in PlacePool : x.id = "p2"},
                   r \in {x \in PlacePool : x.id = "p3"}}
    \cup {<<r, q, p>> : p \in {x \in PlacePool : x.id = "p1"},
                        q \in {x \in PlacePool : x.id = "p2"},
                        r \in {x \in PlacePool : x.id = "p3"}}

\* what the provider can do with one search
SearchOutcomes ==
    {[kind |-> "network_error"], [kind |-> "http_error"],
     [kind |-> "ok", places |-> JUndefined]}
    \cup {[kind |-> "ok", places |-> JArr(s)] :
             s \in SeqsUpTo(PlacePool, MaxResp) \cup FullResponses}

\* absent; inside, on the edge of and just outside the first box; inside a
\* later box; outside all boxes; on the equator; on the prime meridian
Locations ==
    {JUndefined, Loc(3777, -12242), Loc(3720, -12260), Loc(3719, -12260),
     Loc(4071, -7400), Loc(4500, -9300), Loc(0, -7850), Loc(5148, 0)}
ApiKeyConfigured == BOOLEAN
StoreTypeLists ==
    {JUndefined, JArr(<<Pv.term_sporting_goods>>),
     JArr(<<Pv.term_sporting_goods, Pv.term_outdoor, Pv.term_department>>)}
StoreNameLists ==
    {JArr(<< >>), JArr(<<Pv.term_rei, Pv.term_whole_foods, Pv.term_patagonia>>)}
ProductCategories ==
    {JUndefined, JStr(<< >>), JStr(Pv.cat_water_bottles),
     JStr(Pv.cat_travel_luggage)}
CurrentSites == {JNull, JStr(Pv.site_target)}

\* value || []
OrEmpty(x) == IF Falsy(x) THEN << >> ELSE x.v

Suspend(a, at, k, searchTerm) ==
    LET body == RequestBody(a.userLocation, searchTerm, a.searchRadius)
    IN [pc |-> at,
        agg |-> [a EXCEPT !.i = k, !.pending = body,
                          !.requests = Append(@, body)]]

Return(a, value) ==
    [pc |-> "returned", agg |-> [a EXCEPT !.result = value]]

\* return filteredPlaces.slice(0, 3)
ReturnTopThree(a, filteredPlaces) ==
    Return([a EXCEPT !.filteredPlaces = filteredPlaces],
           SliceTo(filteredPlaces, 3))

\* the filter, the sort and the top three; a category that is not a string
\* makes toLowerCase throw, and the catch returns the empty list
FilterAndReturn(a) ==
    IF a.productCategory.t # "string" THEN Return(a, << >>)
    ELSE ReturnTopThree(a, filterAndScorePlaces(a.allPlaces,
                                                a.productCategory.v,
                                                a.currentSite))

Strategy3_AnyCount(a) ==
    IF ~Falsy(a.productCategory)
    THEN Suspend(a, "await3", 1, a.productCategory.v)
    ELSE FilterAndReturn(a)

Strategy3_AtMostThree(a) ==
    IF Len(a.allPlaces) <= 3 /\ ~Falsy(a.productCategory)
    THEN Suspend(a, "await3", 1, a.productCategory.v)
    ELSE FilterAndReturn(a)

\* Strategy 3: one generic search when fewer than three places are known
Strategy3(a) ==
    IF Len(a.allPlaces) < 3 /\ ~Falsy(a.productCategory)
    THEN Suspend(a, "await3", 1, a.productCategory.v)
    ELSE FilterAndReturn(a)

\* Strategy 2 after k of its searches: the next of storeNames.slice(0, 2)
Strategy2(a, k) ==
    LET storeNames == SliceTo(OrEmpty(a.analysis.suggestedStoreNames), 2)
    IN IF k < Len(storeNames)
       THEN Suspend(a, "await2", k + 1, storeNames[k + 1])
       ELSE Strategy3(a)

\* Strategy 1 after k of its searches: the next of storeTypes.slice(0, 2)
Strategy1(a, k) ==
    LET storeTypes == SliceTo(OrEmpty(a.analysis.suggestedStoreTypes), 2)
    IN IF k < Len(storeTypes)
       THEN Suspend(a, "await1", k + 1, storeTypes[k + 1])
       ELSE Strategy2(a, 0)

\* the places of a finished search join allPlaces
Merge(a, places) ==
    LET r == addUniquePlaces(a.allPlaces, places, a.seenPlaceIds)
    IN [a EXCEPT !.allPlaces = r.allPlaces, !.seenPlaceIds = r.seenPlaceIds,
                 !.pending = Idle]

\* The first occurrences in a response of the ids not known before it.
NewFirsts(places, known) ==
    LET keep == {k \in 1..Len(places) :
                    /\ places[k].id \notin known
                    /\ \A j \in 1..(k - 1) : places[j].id # places[k].id}
        F[k \in 0..Len(places)] ==
            IF k = 0 THEN << >>
            ELSE IF k \in keep THEN Append(F[k - 1], places[k]) ELSE F[k - 1]
    IN F[Len(places)]

\* history of the run: the number of searches answered, every id the provider
\* returned, the first record returned for each id in the order the ids first
\* appeared, and whether a search returned an id that an earlier search had
\* returned
Observe(a, places) ==
    [a EXCEPT !.answered = @ + 1,
              !.returnedIds = @ \cup {places[k].id : k \in 1..Len(places)},
              !.discovered = @ \o NewFirsts(places, a.returnedIds),
              !.repeatedId = @ \/ \E k \in 1..Len(places) :
                                    places[k].id \in a.returnedIds]

\* the arguments of a call, the configuration, and the locals before they are set
Call(cat, loc, st, sn, site, key) ==
    [productCategory |-> cat, userLocation |-> loc,
     analysis |-> [suggestedStoreTypes |-> st, suggestedStoreNames |-> sn],
     currentSite |-> site, apiKey |-> key,
     searchRadius |-> 0, i |-> 0, pending |-> Idle,
     requests |-> << >>, allPlaces |-> << >>,
     seenPlaceIds |-> {}, filteredPlaces |-> Idle, result |-> Idle,
     answered |-> 0, returnedIds |-> {}, discovered |-> << >>,
     repeatedId |-> FALSE]

\* one suggested store type and no store name, from every location
LocationCalls ==
    \E loc \in Locations, key \in ApiKeyConfigured :
        agg = Call(JStr(Pv.cat_water_bottles), loc,
                   JArr(<<Pv.term_sporting_goods>>), JArr(<< >>), JNull, key)

\* every combination of suggestions, category and site, from one location
StrategyCalls ==
    \E st \in StoreTypeLists, sn \in StoreNameLists,
       cat \in ProductCategories, site \in CurrentSites :
        agg = Call(cat, Loc(3777, -12242), st, sn, site, TRUE)

InitAgg ==
    /\ pc = "call"
    /\ (LocationCalls \/ StrategyCalls)
    /\ companyData = Idle
    /\ userPreferences = Idle
    /\ scoreResult = Idle
    /\ avoidCheckResult = Idle
    /\ text = Idle
    /\ currentYear = Idle
    /\ parseResult = Idle
    /\ scrape = Idle
    /\ online = Idle
    /\ handler = Idle
    /\ panel = Idle
    /\ stats = Idle
    /\ popup = Idle

Others ==
    <<companyData, userPreferences, scoreResult, avoidCheckResult, text,
      currentYear, parseResult, scrape, online, handler,
      panel, stats, popup>>

\* utils.js: numbers within [-90, 90] and [-180, 180], in hundredths of a degree
isValidCoordinates(lat, lon) ==
    /\ lat \in Int /\ lon \in Int
    /\ lat >= -9000 /\ lat <= 9000
    /\ lon >= -18000 /\ lon <= 18000

\* !userLocation || !userLocation.lat || !userLocation.lon
NoLocation(userLocation) ==
    \/ userLocation.t \in {"undefined", "null"}
    \/ userLocation.lat = 0
    \/ userLocation.lon = 0

\* findLocalAlternatives from its first line to the first search, or to the
\* return when there is none
FindLocalAlternativesStart(a) ==
    IF NoLocation(a.userLocation) THEN Return(a, << >>)
    ELSE IF ~a.apiKey THEN Return(a, << >>)
    ELSE Strategy1([a EXCEPT !.searchRadius =
                        determineSearchRadius(a.userLocation)], 0)

\* from the call to the first search, or to the return when there is none
FindLocalAlternativesCall ==
    /\ pc = "call"
    /\ \E next \in {FindLocalAlternativesStart(agg)} :
          pc' = next.pc /\ agg' = next.agg
    /\ UNCHANGED Others

Strategy1Response ==
    /\ pc = "await1"
    /\ \E outcome \in SearchOutcomes :
          \E places \in {searchPlacesByType(outcome)} :
             \E next \in {Strategy1(Observe(Merge(agg, places), places), agg.i)} :
                pc' = next.pc /\ agg' = next.agg
    /\ UNCHANGED Others

Strategy2Response ==
    /\ pc = "await2"
    /\ \E outcome \in SearchOutcomes :
          \E places \in {searchPlacesByType(outcome)} :
             \E next \in {Strategy2(Observe(Merge(agg, places), places), agg.i)} :
                pc' = next.pc /\ agg' = next.agg
    /\ UNCHANGED Others

Strategy3Response ==
    /\ pc = "await3"
    /\ \E outcome \in SearchOutcomes :
          \E places \in {searchPlacesByType(outcome)} :
             \E next \in {FilterAndReturn(Observe(Merge(agg, places), places))} :
                pc' = next.pc /\ agg' = next.agg
    /\ UNCHANGED Others

NextAgg ==
    \/ FindLocalAlternativesCall
    \/ Strategy1Response
    \/ Strategy2Response
    \/ Strategy3Response

SpecAgg == InitAgg /\ [][NextAgg]_vars

(***************************************************************************)
(* filterAndScorePlaces on merged lists of any content: the run is taken   *)
(* up where the searches are over and allPlaces is complete.               *)
(***************************************************************************)
RankPool ==
    {Place("r1", DisplayName(Pv.pn_rei), <<"sporting_goods_store", "store">>,
           "OPERATIONAL", JNum(47), JStr(Pv.addr_market_st), LatLng(3778, -12241)),
     Place("r2", DisplayName(Pv.pn_walmart), <<"sporting_goods_store", "store">>,
           "OPERATIONAL", JNum(41), JStr(Pv.addr_market_st), LatLng(3775, -12240)),
     Place("r3", JUndefined, <<"store">>,
           "OPERATIONAL", JNum(0), JUndefined, JUndefined),
     Place("r4", DisplayName(Pv.pn_summit),
           <<"sporting_goods_store", "clothing_store", "store">>,
           "OPERATIONAL", JNum(44), JStr(Pv.addr_market_st), LatLng(3776, -12244)),
     Place("r6", DisplayName(Pv.pn_library), <<"library", "store">>,
           "OPERATIONAL", JNum(48), JStr(Pv.addr_market_st), LatLng(3771, -12245)),
     Place("r7", DisplayName(Pv.pn_sofa), <<"home_goods_store", "store">>,
           "OPERATIONAL", JNum(39), JStr(Pv.addr_market_st), LatLng(3772, -12239)),
     Place("r8", DisplayName(Pv.pn_plumbing), <<"hardware_store", "store">>,
           "OPERATIONAL", JNum(42), JStr(Pv.addr_market_st), LatLng(3773, -12238)),
     Place("r9", DisplayName(Pv.pn_trail), <<"sporting_goods_store", "store">>,
           "OPERATIONAL", JNum(46), JStr(Pv.addr_market_st), LatLng(3774, -12237))}

\* the lists addUniquePlaces can build: no id twice
MergedLists ==
    {l \in SeqsUpTo(RankPool, MaxPlaces) :
        \A m, n \in 1..Len(l) : l[m].id = l[n].id => m = n}

\* productCategory and currentSite
RankArguments ==
    {<<JStr(Pv.cat_water_bottles), JNull>>,
     <<JStr(Pv.cat_water_bottles), JStr(Pv.site_target)>>,
     <<JStr(Pv.cat_travel_luggage), JNull>>,
     <<JStr(Pv.cat_travel_bottles), JNull>>,
     <<JStr(<< >>), JNull>>}

InitRank ==
    /\ pc = "filter"
    /\ \E l \in MergedLists, arg \in RankArguments :
          agg = [Call(arg[1], Loc(3777, -12242), JArr(<< >>), JArr(<< >>),
                      arg[2], TRUE)
                   EXCEPT !.searchRadius = 5000, !.allPlaces = l,
                          !.seenPlaceIds = {l[k].id : k \in 1..Len(l)},
                          !.returnedIds = {l[k].id : k \in 1..Len(l)},
                          !.discovered = l]
    /\ companyData = Idle
    /\ userPreferences = Idle
    /\ scoreResult = Idle
    /\ avoidCheckResult = Idle
    /\ text = Idle
    /\ currentYear = Idle
    /\ parseResult = Idle
    /\ scrape = Idle
    /\ online = Idle
    /\ handler = Idle
    /\ panel = Idle
    /\ stats = Idle
    /\ popup = Idle

\* findLocalAlternatives from the filter to the return
FilterAndScorePlacesStep ==
    /\ pc = "filter"
    /\ \E next \in {FilterAndReturn(agg)} : pc' = next.pc /\ agg' = next.agg
    /\ UNCHANGED Others

NextRank == FilterAndScorePlacesStep

SpecRank == InitRank /\ [][NextRank]_vars

(***************************************************************************)
(* scrapePriceFromPage.                                                    *)
(*                                                                         *)
(* Amounts are integers in cents.  A fetched page is the record of what    *)
(* the extraction steps of the code see in it: the values JSON.parse gives *)
(* for the JSON-LD script blocks, the matches of the global dollar pattern *)
(* and the capture of each of the three other patterns.  The texts of the  *)
(* model carry at most two decimals, so that cents are exact.              *)
(***************************************************************************)
MaxBlocks == 2

\* Texts and amounts of the sample pages
Sv ==
    [a29_99 |-> <<"2","9",".","9","9">>,
     a3_50 |-> <<"3",".","5","0">>,
     call |-> <<"C","a","l","l"," ","f","o","r"," ","p","r","i","c","e">>,
     a12_99 |-> <<"1","2",".","9","9">>,
     a4_99 |-> <<"4",".","9","9">>,
     a5 |-> <<"5">>,
     a1000 |-> <<"1","0","0","0">>,
     a1000_01 |-> <<"1","0","0","0",".","0","1">>,
     a2700 |-> <<"2","7","0","0">>,
     a101 |-> <<"1","0","1">>,
     a19_99 |-> <<"1","9",".","9","9">>,
     a1200 |-> <<"1","2","0","0">>,
     a3 |-> <<"3">>,
     d12_99 |-> <<"$","1","2",".","9","9">>,
     d8_50 |-> <<"$","8",".","5","0">>,
     d1_299_99 |-> <<"$","1",",","2","9","9",".","9","9">>,
     product |-> <<"P","r","o","d","u","c","t">>,
     organization |-> <<"O","r","g","a","n","i","z","a","t","i","o","n">>]

\* Amounts are never negative; -1 stands for the not-a-number of JavaScript,
\* which no comparison of the code accepts
NaN == -1

\* Length of the run of digits of s that starts at position i
RECURSIVE DigitRun(_, _)
DigitRun(s, i) ==
    IF i <= Len(s) /\ IsDigit(s[i]) THEN 1 + DigitRun(s, i + 1) ELSE 0

\* Value of a sequence of digits
RECURSIVE NatOf(_)
NatOf(d) ==
    IF d = << >> THEN 0
    ELSE 10 * NatOf(SubSeq(d, 1, Len(d) - 1)) + DigitValue(d[Len(d)])

\* parseFloat of a string: the longest numeric prefix, NaN when there is none
ParseFloatString(s) ==
    LET intLen == DigitRun(s, 1)
        hasDot == Len(s) > intLen /\ s[intLen + 1] = "."
        fracLen == IF hasDot THEN DigitRun(s, intLen + 2) ELSE 0
        frac == SubSeq(s, intLen + 2, intLen + 1 + fracLen)
    IN  IF intLen = 0 /\ fracLen = 0 THEN NaN
        ELSE 100 * NatOf(SubSeq(s, 1, intLen))
             + (IF fracLen = 0 THEN 0
                ELSE IF fracLen = 1 THEN 10 * DigitValue(frac[1])
                ELSE 10 * DigitValue(frac[1]) + DigitValue(frac[2]))

\* parseFloat of a JavaScript value
parseFloat(x) ==
    IF x.t = "number" THEN x.v
    ELSE IF x.t = "string" THEN ParseFloatString(x.v)
    ELSE NaN

\* Decimal digits of a natural number
RECURSIVE NatDigits(_)
NatDigits(n) ==
    IF n < 10 THEN <<Digits[n + 1]>>
    ELSE NatDigits(n \div 10) \o <<Digits[(n % 10) + 1]>>

\* Number.prototype.toFixed(2)
toFixed2(price) ==
    IF price = NaN THEN <<"N","a","N">>
    ELSE NatDigits(price \div 100) \o <<".">>
         \o <<Digits[((price % 100) \div 10) + 1], Digits[(price % 10) + 1]>>

\* `$${price.toFixed(2)}`
DollarString(price) == JStr(<<"$">> \o toFixed2(price))

\* priceStr.replace(/,/g, '')
RemoveCommas(s) == SelectSeq(s, LAMBDA c : c # ",")

InvalidJson == [t |-> "invalid"]

\* data.offers.price || data.offers[0]?.price
OfferPrice(offers) ==
    IF offers.t = "object" THEN
        IF Falsy(offers.v.price) THEN JUndefined ELSE offers.v.price
    ELSE IF offers.t = "array" /\ offers.v # << >> /\ offers.v[1].t = "object"
         THEN offers.v[1].v.price
    ELSE JUndefined

\* One pass of the loop over the JSON-LD blocks: the returned string, or
\* JNull when the block returns nothing
JsonLdBlock(data) ==
    IF data.t # "object" THEN JNull
    ELSE IF data.v.type = Sv.product /\ ~Falsy(data.v.offers)
    THEN LET price == OfferPrice(data.v.offers)
         IN  IF ~Falsy(price) THEN DollarString(parseFloat(price)) ELSE JNull
    ELSE JNull

\* Method 1: the first block that returns
RECURSIVE JsonLdPrice(_)
JsonLdPrice(blocks) ==
    IF blocks = << >> THEN JNull
    ELSE LET r == JsonLdBlock(Head(blocks))
         IN  IF r # JNull THEN r ELSE JsonLdPrice(Tail(blocks))

\* Body of the loop over pricePatterns for a matched priceStr: the returned
\* string, or JNull when the sanity check rejects the amount
PatternPrice(priceStr) ==
    LET parsed == ParseFloatString(priceStr)
        price == IF parsed # NaN /\ ~includes(priceStr, <<".">>) /\ parsed > 10000
                 THEN parsed \div 100 ELSE parsed
    IN  IF price # NaN /\ price >= 500 /\ price <= 100000
        THEN DollarString(price) ELSE JNull

\* The three patterns without the g flag: match[1] is the capture
RECURSIVE CapturePrice(_)
CapturePrice(captures) ==
    IF captures = << >> THEN JNull
    ELSE IF Head(captures) = JNull THEN CapturePrice(Tail(captures))
    ELSE LET r == PatternPrice(RemoveCommas(Head(captures).v))
         IN  IF r # JNull THEN r ELSE CapturePrice(Tail(captures))

\* Method 2.  The first pattern has the g flag: html.match returns the
\* matched texts, match[1] is the second of them, and undefined.replace
\* throws into the outer catch when there is only one.
RegexPrice(page) ==
    LET captures == <<page.jsonPrice, page.microdata, page.openGraph>>
    IN  IF page.dollarAmounts = << >> THEN CapturePrice(captures)
        ELSE IF Len(page.dollarAmounts) < 2 THEN JNull
        ELSE LET r == PatternPrice(RemoveCommas(page.dollarAmounts[2]))
             IN  IF r # JNull THEN r ELSE CapturePrice(captures)

scrapePriceFromPage(page) ==
    IF page.fetch # "ok" THEN JNull
    ELSE LET structured == JsonLdPrice(page.jsonLd)
         IN  IF structured # JNull THEN structured ELSE RegexPrice(page)

JsonLd(type, offers) == JObj([type |-> type, offers |-> offers])
Offer(price) == JObj([price |-> price])

\* Values JSON.parse gives for the JSON-LD blocks of the sample pages
JsonLdBlocks ==
    {InvalidJson, JNull,
     JsonLd(Sv.product, JUndefined),
     JsonLd(Sv.product, Offer(JStr(Sv.a29_99))),
     JsonLd(Sv.product, Offer(JNum(250000))),
     JsonLd(Sv.product, Offer(JNum(0))),
     JsonLd(Sv.product, Offer(JStr(Sv.call))),
     JsonLd(Sv.product, JArr(<<Offer(JStr(Sv.a3_50))>>)),
     JsonLd(Sv.organization, Offer(JStr(Sv.a19_99)))}

DollarAmounts ==
    {<< >>, <<Sv.d12_99>>, <<Sv.d12_99, Sv.d8_50>>, <<Sv.d8_50, Sv.d1_299_99>>}

JsonPrices ==
    {JNull, JStr(Sv.a4_99), JStr(Sv.a5), JStr(Sv.a1000), JStr(Sv.a1000_01),
     JStr(Sv.a2700), JStr(Sv.a101)}

MicrodataPrices == {JNull, JStr(Sv.a19_99), JStr(Sv.a1200)}

OpenGraphPrices == {JNull, JStr(Sv.a3), JStr(Sv.a12_99)}

Page(fetch, jsonLd, dollarAmounts, jsonPrice, microdata, openGraph) ==
    [fetch |-> fetch, jsonLd |-> jsonLd, dollarAmounts |-> dollarAmounts,
     jsonPrice |-> jsonPrice, microdata |-> microdata, openGraph |-> openGraph]

\* Pages whose price, if any, comes from the JSON-LD blocks or a later pattern
StructuredPages ==
    \E blocks \in SeqsUpTo(JsonLdBlocks, MaxBlocks), m \in MicrodataPrices :
        scrape = [page |-> Page("ok", blocks, << >>, JNull, m, JNull),
                  result |-> NotRun]

\* Pages without JSON-LD blocks, and fetches that fail
PatternPages ==
    \E f \in {"ok", "http_error", "network_error", "timeout"},
       d \in DollarAmounts, j \in JsonPrices, m \in MicrodataPrices,
       o \in OpenGraphPrices :
        scrape = [page |-> Page(f, << >>, d, j, m, o), result |-> NotRun]

InitScrape ==
    /\ pc = "scrape"
    /\ (StructuredPages \/ PatternPages)
    /\ companyData = Idle
    /\ userPreferences = Idle
    /\ scoreResult = Idle
    /\ avoidCheckResult = Idle
    /\ text = Idle
    /\ currentYear = Idle
    /\ parseResult = Idle
    /\ agg = Idle
    /\ online = Idle
    /\ handler = Idle
    /\ panel = Idle
    /\ stats = Idle
    /\ popup = Idle

\* One call of scrapePriceFromPage, from the fetch to the return
ScrapePriceFromPageStep ==
    /\ pc = "scrape"
    /\ scrape' = [scrape EXCEPT !.result =
                     [ran |-> TRUE, price |-> scrapePriceFromPage(scrape.page)]]
    /\ pc' = "scraped"
    /\ UNCHANGED <<companyData, userPreferences, scoreResult, avoidCheckResult,
                   text, currentYear, parseResult, agg, online, handler,
      panel, stats, popup>>

NextScrape == ScrapePriceFromPageStep

SpecScrape == InitScrape /\ [][NextScrape]_vars

(***************************************************************************)
(* findSmallOnlineRetailers: the Brave Search retailer finder.             *)
(*                                                                         *)
(* The function suspends at the await of the search and at the await of    *)
(* scrapePriceFromPage for every result it keeps; a step of the model runs *)
(* it from one suspension to the next.  Ratings are integers in tenths.    *)
(***************************************************************************)
MaxResults == 3

MEGA_CORP_DOMAINS ==
    {<<"a","m","a","z","o","n">>,
     <<"w","a","l","m","a","r","t">>,
     <<"t","a","r","g","e","t">>,
     <<"b","e","s","t","b","u","y">>,
     <<"e","b","a","y">>,
     <<"a","l","i","b","a","b","a">>,
     <<"a","l","i","e","x","p","r","e","s","s">>,
     <<"w","i","s","h">>,
     <<"m","a","c","y","s">>,
     <<"k","o","h","l","s">>,
     <<"j","c","p","e","n","n","e","y">>,
     <<"s","e","a","r","s">>,
     <<"c","o","s","t","c","o">>,
     <<"s","a","m","s","c","l","u","b">>,
     <<"b","j","s">>,
     <<"h","o","m","e","d","e","p","o","t">>,
     <<"l","o","w","e","s">>,
     <<"s","t","a","p","l","e","s">>,
     <<"o","f","f","i","c","e","d","e","p","o","t">>,
     <<"p","e","t","s","m","a","r","t">>,
     <<"p","e","t","c","o">>,
     <<"c","v","s">>,
     <<"w","a","l","g","r","e","e","n","s">>,
     <<"r","i","t","e","a","i","d">>}

irrelevantDomains ==
    {<<"r","e","d","d","i","t">>,
     <<"q","u","o","r","a">>,
     <<"y","o","u","t","u","b","e">>,
     <<"f","a","c","e","b","o","o","k">>,
     <<"i","n","s","t","a","g","r","a","m">>,
     <<"t","w","i","t","t","e","r">>,
     <<"p","i","n","t","e","r","e","s","t">>,
     <<"t","i","k","t","o","k">>,
     <<"w","i","k","i","p","e","d","i","a">>,
     <<"e","b","a","y">>,
     <<"c","o","m","p","a","r","i","s","o","n">>,
     <<"r","e","v","i","e","w">>,
     <<"d","e","a","l","s">>,
     <<"c","o","u","p","o","n","s">>,
     <<"p","a","c","k","a","g","e","f","r","e","e">>,
     <<"e","a","r","t","h","h","e","r","o">>,
     <<"t","r","e","e","h","u","g","g","e","r">>,
     <<"s","u","s","t","a","i","n","a","b","l","e","j","u","n","g","l","e">>,
     <<"g","r","e","e","n","m","a","t","t","e","r","s">>}

separators == <<<<" ","-"," ">>, <<" ","|"," ">>, <<":"," ">>, <<" ",":"," ">>>>

\* Texts of the code and of the sample search results
Ov ==
    [placeholder |-> <<"Y","O","U","R","_","B","R","A","V","E","_","S","E","A","R","C","H","_","A","P","I","_","K","E","Y">>,
     key |-> <<"B","S","A","-","1">>,
     scheme |-> <<"h","t","t","p","s",":","/","/">>,
     www |-> <<"w","w","w",".">>,
     com |-> <<".","c","o","m">>,
     visit |-> <<"V","i","s","i","t"," ","s","i","t","e"," ","f","o","r"," ","p","r","i","c","i","n","g">>,
     steel_bottle |-> <<"S","t","e","e","l"," ","B","o","t","t","l","e">>,
     u_klean |-> <<"h","t","t","p","s",":","/","/","w","w","w",".","k","l","e","a","n","b","o","t","t","l","e",".","c","o","m","/","p">>,
     t_klean |-> <<"S","t","e","e","l"," ","B","o","t","t","l","e"," ","-"," ","K","l","e","a","n"," ","B","o","t","t","l","e">>,
     d_klean |-> <<"R","e","u","s","a","b","l","e"," ","b","o","t","t","l","e">>,
     u_amazon |-> <<"h","t","t","p","s",":","/","/","S","h","o","p",".","A","m","a","z","o","n",".","c","o","m","/","x">>,
     t_amazon |-> <<"S","t","e","e","l"," ","B","o","t","t","l","e"," ",":"," ","A","m","a","z","o","n">>,
     u_reddit |-> <<"h","t","t","p","s",":","/","/","w","w","w",".","r","e","d","d","i","t",".","c","o","m","/","r">>,
     t_reddit |-> <<"B","e","s","t"," ","s","t","e","e","l"," ","b","o","t","t","l","e","?">>,
     u_hydro |-> <<"h","t","t","p","s",":","/","/","h","y","d","r","o","-","s","h","o","p",".","c","o","/","b">>,
     t_hydro |-> <<"I","n","s","u","l","a","t","e","d"," ","F","l","a","s","k">>,
     d_hydro |-> <<"I","n","s","u","l","a","t","e","d"," ","s","t","e","e","l"," ","f","l","a","s","k"," ","k","e","e","p","s"," ","d","r","i","n","k","s"," ","c","o","l","d"," ","f","o","r"," ","a"," ","f","u","l","l"," ","d","a","y",".">>,
     u_green |-> <<"h","t","t","p","s",":","/","/","g","r","e","e","n","l","i","f","e",".","o","r","g","/">>,
     t_green |-> <<"E","c","o"," ","L","i","v","i","n","g"," ","T","i","p","s">>,
     d_green |-> <<"I","d","e","a","s">>,
     u_barn |-> <<"h","t","t","p","s",":","/","/","b","o","t","t","l","e","b","a","r","n",".","n","e","t","/","s">>,
     t_barn |-> <<"S","t","e","e","l"," ","B","o","t","t","l","e"," ","|"," ","B","o","t","t","l","e"," ","B","a","r","n"," ">>,
     u_bad |-> <<"b","o","t","t","l","e","s"," ","t","o"," ","b","u","y">>,
     u_pad |-> <<"h","t","t","p","s",":","/","/","w","a","l","m","a","r","t",".","c","o","m","/">>]

\* String.prototype.indexOf, 0 when sub does not occur
IndexOf(s, sub) ==
    IF includes(s, sub)
    THEN 1 + (CHOOSE i \in 0..(Len(s) - Len(sub)) :
                /\ \A j \in 1..Len(sub) : s[i + j] = sub[j]
                /\ \A h \in 0..(i - 1) : \E j \in 1..Len(sub) : s[h + j] # sub[j])
    ELSE 0

\* String.prototype.replace with a string pattern: the first occurrence only
ReplaceFirst(s, sub, by) ==
    IF IndexOf(s, sub) = 0 THEN s
    ELSE SubSeq(s, 1, IndexOf(s, sub) - 1) \o by
         \o SubSeq(s, IndexOf(s, sub) + Len(sub), Len(s))

\* parts[parts.length - 1] of s.split(sep)
RECURSIVE LastPart(_, _)
LastPart(s, sep) ==
    IF IndexOf(s, sep) = 0 THEN s
    ELSE LastPart(SubSeq(s, IndexOf(s, sep) + Len(sep), Len(s)), sep)

\* String.prototype.trim on characters
RECURSIVE TrimSpaces(_)
TrimSpaces(s) ==
    IF s # << >> /\ Head(s) = " " THEN TrimSpaces(Tail(s))
    ELSE IF s # << >> /\ s[Len(s)] = " " THEN TrimSpaces(SubSeq(s, 1, Len(s) - 1))
    ELSE s

UpperChar(c) ==
    IF \E i \in 1..26 : LowerLetters[i] = c
    THEN UpperLetters[CHOOSE i \in 1..26 : LowerLetters[i] = c] ELSE c

\* .split('-').map(w => w.charAt(0).toUpperCase() + w.slice(1)).join(' ')
RECURSIVE CapitalizeWords(_, _)
CapitalizeWords(s, i) ==
    IF i > Len(s) THEN << >>
    ELSE (IF s[i] = "-" THEN <<" ">>
          ELSE IF i = 1 \/ s[i - 1] = "-" THEN <<UpperChar(s[i])>>
          ELSE <<s[i]>>) \o CapitalizeWords(s, i + 1)

\* .split('.')[0]
BeforeFirstDot(s) ==
    IF IndexOf(s, <<".">>) = 0 THEN s ELSE SubSeq(s, 1, IndexOf(s, <<".">>) - 1)

RECURSIVE ExtractWith(_, _, _)
ExtractWith(seps, title, domain) ==
    IF seps = << >>
    THEN CapitalizeWords(
             BeforeFirstDot(ReplaceFirst(ReplaceFirst(domain, Ov.www, << >>),
                                         Ov.com, << >>)), 1)
    ELSE IF includes(title, Head(seps)) THEN TrimSpaces(LastPart(title, Head(seps)))
    ELSE ExtractWith(Tail(seps), title, domain)

extractBusinessName(title, domain) == ExtractWith(separators, title, domain)

isMegaCorp(domain) ==
    \E mega \in MEGA_CORP_DOMAINS : includes(toLowerCase(domain), mega)

\* new URL(url) accepts the https URLs of the model and throws on other texts
IsUrl(url) ==
    Len(url) > Len(Ov.scheme) /\ SubSeq(url, 1, Len(Ov.scheme)) = Ov.scheme

\* new URL(url).hostname: the host in lower case
Hostname(url) ==
    LET rest == SubSeq(url, Len(Ov.scheme) + 1, Len(url))
    IN  toLowerCase(IF IndexOf(rest, <<"/">>) = 0 THEN rest
                    ELSE SubSeq(rest, 1, IndexOf(rest, <<"/">>) - 1))

IsIrrelevant(domainLower) == \E d \in irrelevantDomains : includes(domainLower, d)

\* The test on title and description that skips a result
ProductNotInTitle(item, productName) ==
    LET titleLower == toLowerCase(item.title)
        descLower == toLowerCase(IF Falsy(item.description) THEN << >>
                                 ELSE item.description.v)
        productFirstWord == FirstWord(toLowerCase(productName))
    IN  ~includes(titleLower, productFirstWord) /\ Len(descLower) < 50

\* Mutant of Alternative: hasPrice is set whatever the scrape gave.
Alternative_AlwaysPriced(item, domain, price) ==
    [name |-> extractBusinessName(item.title, domain),
     type |-> "small-business",
     typeLabel |-> "Small Business",
     url |-> item.url,
     description |-> item.description,
     price |-> price,
     priceDisplay |-> IF Falsy(price) THEN JStr(Ov.visit) ELSE price,
     rating |-> 45,
     availability |-> "Check website",
     source |-> "Web Search",
     isReal |-> TRUE,
     hasPrice |-> TRUE]

\* The object pushed for a kept result
Alternative(item, domain, price) ==
    [name |-> extractBusinessName(item.title, domain),
     type |-> "small-business",
     typeLabel |-> "Small Business",
     url |-> item.url,
     description |-> item.description,
     price |-> price,
     priceDisplay |-> IF Falsy(price) THEN JStr(Ov.visit) ELSE price,
     rating |-> 45,
     availability |-> "Check website",
     source |-> "Web Search",
     isReal |-> TRUE,
     hasPrice |-> ~Falsy(price)]

\* data.web.results.slice(0, 8)
CheckedResults_All(results) == results

CheckedResults(results) == SliceTo(results, 8)

\* alternatives.sort(...): the comparator orders hasPrice before its absence
\* and the sort is stable, so each group keeps its order
SortByPrice(alternatives) ==
    SelectSeq(alternatives, LAMBDA a : a.hasPrice)
        \o SelectSeq(alternatives, LAMBDA a : ~a.hasPrice)

ReturnOnline(o, value) ==
    [pc |-> "online_returned", online |-> [o EXCEPT !.returned = value]]

\* The for loop from result i to the next await of scrapePriceFromPage, or
\* to the sort and the return when the results are exhausted
RECURSIVE ResultsLoop(_, _)
ResultsLoop(o, i) ==
    IF i > Len(CheckedResults(o.results))
    THEN ReturnOnline(o, SliceTo(SortByPrice(o.alternatives), 2))
    ELSE LET item == o.results[i]
         IN  IF ~IsUrl(item.url) THEN ReturnOnline(o, << >>)
             ELSE IF isMegaCorp(Hostname(item.url)) THEN ResultsLoop(o, i + 1)
             ELSE IF IsIrrelevant(Hostname(item.url)) THEN ResultsLoop(o, i + 1)
             ELSE IF ProductNotInTitle(item, o.productName) THEN ResultsLoop(o, i + 1)
             ELSE [pc |-> "await_scrape", online |-> [o EXCEPT !.i = i]]

SearchResult(url, title, description) ==
    [url |-> url, title |-> title, description |-> description]

\* Search results of the sample responses
ResultPool ==
    {SearchResult(Ov.u_klean, Ov.t_klean, JStr(Ov.d_klean)),
     SearchResult(Ov.u_amazon, Ov.t_amazon, JUndefined),
     SearchResult(Ov.u_reddit, Ov.t_reddit, JUndefined),
     SearchResult(Ov.u_hydro, Ov.t_hydro, JStr(Ov.d_hydro)),
     SearchResult(Ov.u_green, Ov.t_green, JStr(Ov.d_green)),
     SearchResult(Ov.u_barn, Ov.t_barn, JStr(Ov.d_klean)),
     SearchResult(Ov.u_bad, Ov.t_klean, JUndefined)}

DistinctUrls(s) == \A i, j \in 1..Len(s) : s[i].url = s[j].url => i = j

\* Six results of a mega-corp, which fill the head of a long response
LeadingResults ==
    [k \in 1..6 |->
        SearchResult(Ov.u_pad \o <<Digits[k + 1]>>, Ov.t_amazon, JUndefined)]

ResultLists ==
    {s \in SeqsUpTo(ResultPool, MaxResults) : DistinctUrls(s)}

\* What the search can answer
BraveOutcomes ==
    {[kind |-> "network_error"], [kind |-> "http_error"],
     [kind |-> "ok", web |-> JUndefined],
     [kind |-> "ok", web |-> JObj([results |-> JUndefined])]}
    \cup {[kind |-> "ok", web |-> JObj([results |-> JArr(s)])] : s \in ResultLists}
    \cup {[kind |-> "ok", web |-> JObj([results |-> JArr(LeadingResults \o s)])] :
             s \in ResultLists}

\* What scrapePriceFromPage can answer
ScrapedPrices ==
    {scrapePriceFromPage(Page("timeout", << >>, << >>, JNull, JNull, JNull)),
     scrapePriceFromPage(
         Page("ok", <<JsonLd(Sv.product, Offer(JStr(Sv.a29_99)))>>, << >>,
              JNull, JNull, JNull))}

BraveKeys == {JUndefined, JStr(Ov.placeholder), JStr(Ov.key)}

OnlineCall(productName, key) ==
    [productName |-> productName, key |-> key, results |-> << >>, i |-> 0,
     alternatives |-> << >>, returned |-> Idle]

InitOnline ==
    /\ pc = "call_online"
    /\ \E productName \in {Ov.steel_bottle, << >>}, key \in BraveKeys :
          online = OnlineCall(productName, key)
    /\ companyData = Idle
    /\ userPreferences = Idle
    /\ scoreResult = Idle
    /\ avoidCheckResult = Idle
    /\ text = Idle
    /\ currentYear = Idle
    /\ parseResult = Idle
    /\ agg = Idle
    /\ scrape = Idle
    /\ handler = Idle
    /\ panel = Idle
    /\ stats = Idle
    /\ popup = Idle

OnlineOthers ==
    <<companyData, userPreferences, scoreResult, avoidCheckResult, text,
      currentYear, parseResult, agg, scrape, handler,
      panel, stats, popup>>

\* findSmallOnlineRetailers from its first line to the await of the search
FindSmallOnlineRetailersStart(o) ==
    IF Falsy(o.key) \/ o.key = JStr(Ov.placeholder)
    THEN ReturnOnline(o, << >>)
    ELSE [pc |-> "await_search", online |-> o]

\* The guards on the response of the search, then the loop
AfterSearch(o, outcome) ==
    IF outcome.kind # "ok" THEN ReturnOnline(o, << >>)
    ELSE IF Falsy(outcome.web) \/ Falsy(outcome.web.v.results)
            \/ outcome.web.v.results.v = << >>
    THEN ReturnOnline(o, << >>)
    ELSE ResultsLoop([o EXCEPT !.results = outcome.web.v.results.v], 1)

\* The push of the result that was scraped, then the loop from the next result
AfterScrape(o, price) ==
    ResultsLoop([o EXCEPT !.alternatives =
                    Append(@, Alternative(o.results[o.i],
                                          Hostname(o.results[o.i].url), price))],
                o.i + 1)

\* The call up to the await of the search
FindSmallOnlineRetailersCall ==
    /\ pc = "call_online"
    /\ \E next \in {FindSmallOnlineRetailersStart(online)} :
          pc' = next.pc /\ online' = next.online
    /\ UNCHANGED OnlineOthers

\* The search answers
BraveResponse ==
    /\ pc = "await_search"
    /\ \E outcome \in BraveOutcomes :
          \E next \in {AfterSearch(online, outcome)} :
             pc' = next.pc /\ online' = next.online
    /\ UNCHANGED OnlineOthers

\* scrapePriceFromPage answers
ScrapeResponse ==
    /\ pc = "await_scrape"
    /\ \E price \in ScrapedPrices :
          \E next \in {AfterScrape(online, price)} :
             pc' = next.pc /\ online' = next.online
    /\ UNCHANGED OnlineOthers

NextOnline == FindSmallOnlineRetailersCall \/ BraveResponse \/ ScrapeResponse

SpecOnline == InitOnline /\ [][NextOnline]_vars

(***************************************************************************)
(* The analyzeProduct branch of the onMessage listener.                    *)
(*                                                                         *)
(* The listener calls analyzeProduct, whose only await is the completion   *)
(* request; the then callback awaits findLocalAlternatives and             *)
(* findSmallOnlineRetailers.  The two are run to their return by the       *)
(* operators above on what the providers answer, so that a step of the     *)
(* model takes the callback from one of its awaits to the next.            *)
(***************************************************************************)
Rejected(message) == [kind |-> "rejected", message |-> message]
Fulfilled(value) == [kind |-> "fulfilled", value |-> value]

\* Credentials of config.js
Hv ==
    [key_placeholder |-> <<"y","o","u","r","-","a","p","i","-","k","e","y","-","h","e","r","e">>,
     key |-> <<"s","k","-","a","n","t","-","1">>,
     key_missing |-> "API key not configured. Please copy config.example.js to config.js and add your API key."]

\* !CONFIG.ANTHROPIC_API_KEY || CONFIG.ANTHROPIC_API_KEY === 'your-api-key-here'
ApiKeyMissing_PlaceholderAccepted(key) == Falsy(key)

ApiKeyMissing(key) == Falsy(key) \/ key = JStr(Hv.key_placeholder)

\* Completion texts: a full analysis, one without category and store types,
\* and a truncated one
CompletionTexts ==
    {ObjectText(<<M_Acme,
                  TokMember("productCategory", JStr(Pv.cat_water_bottles)),
                  TokMember("suggestedStoreTypes",
                            JArr(<<JStr(Pv.term_sporting_goods)>>))>>),
     ObjectText(<<M_Parent(JStr(Cv.name_amazon_inc)),
                  TokMember("companySize", JStr(Cv.size_mega_corp))>>),
     <<TokPunct("{"), M_Acme>>}

\* What the completion provider can do with the request
CompletionOutcomes ==
    {[kind |-> "network_error"], [kind |-> "status", status |-> 429],
     [kind |-> "status", status |-> 401], [kind |-> "status", status |-> 500],
     [kind |-> "ok", text |-> JUndefined]}
    \cup {[kind |-> "ok", text |-> JStr(t)] : t \in CompletionTexts}

\* The strings of an array of strings
PlainStrings(x) == [i \in 1..Len(x.v) |-> x.v[i].v]

\* The fields of the parsed object the scorer reads
CompanyDataOf(parsed) ==
    Analysis(Get(parsed, "companySize").v, Get(parsed, "ownershipType").v,
             Get(parsed, "parentCompany").v,
             PlainStrings(Get(parsed, "subsidiaries")),
             PlainStrings(Get(parsed, "factualConcerns")),
             PlainStrings(Get(parsed, "certifications")))

\* userPreferences as the scorer reads them
ScorerPreferences(prefs) ==
    Prefs(IF Falsy(Get(prefs, "avoidedBrands")) THEN << >>
          ELSE Get(prefs, "avoidedBrands").v,
          IF Get(prefs, "sustainableProducts") = JBool(FALSE) THEN "false"
          ELSE IF Get(prefs, "sustainableProducts").t = "undefined" THEN "undefined"
          ELSE "true")

\* analyzeProduct from the avoid-list check to the analysis record
AnalysisOf(parsed, prefs) ==
    LET cd == CompanyDataOf(parsed)
        avoidCheck == checkAvoidedBrands(cd, ScorerPreferences(prefs).avoidedBrands)
        marked == IF avoidCheck.isOnAvoidList
                  THEN Put(Put(parsed, "isOnAvoidList", JBool(TRUE)),
                           "avoidReason",
                           [reason |-> avoidCheck.reason, arg |-> avoidCheck.arg])
                  ELSE parsed
        score == calculateAlignmentScore(cd, ScorerPreferences(prefs))
    IN  Put(Put(Put(marked, "alignmentScore", JNum(score.score)),
                "scoreBreakdown", score.breakdown),
            "concerns", Get(marked, "factualConcerns"))

\* analyzeProduct from the response of the completion request to its
\* settlement; prefs is {} when the caller passed undefined
AnalyzeProductSettles(outcome, prefs, year0) ==
    IF outcome.kind = "network_error"
    THEN Rejected("NETWORK_ERROR: Could not connect to Anthropic API. Check your internet connection.")
    ELSE IF outcome.kind = "status"
    THEN IF outcome.status = 429 THEN Rejected("API_RATE_LIMIT")
         ELSE IF outcome.status = 401
         THEN Rejected("API_ERROR: 401 - Unauthorized. API key may be invalid or expired. Error: ")
         ELSE Rejected("API_ERROR: 500 - ")
    ELSE IF outcome.text.t = "undefined" THEN Rejected("TypeError")
    ELSE LET parsed == parseClaudeResponse(outcome.text.v, year0)
         IN  IF ~parsed.ok THEN Rejected("PARSE_ERROR")
             ELSE Fulfilled(AnalysisOf(parsed.value, prefs))

\* The call findLocalAlternatives(analysis.productCategory, location,
\* analysis, currentSite) up to its first search or its return
CallFindLocalAlternatives(analysis, location, currentSite) ==
    FindLocalAlternativesStart(
        Call(Get(analysis, "productCategory"), location,
             JArr(PlainStrings(Get(analysis, "suggestedStoreTypes"))),
             JArr(PlainStrings(Get(analysis, "suggestedStoreNames"))),
             currentSite, TRUE))

\* findLocalAlternatives from the answer of a search to the next search or
\* to the return
AfterPlacesSearch(st, outcome) ==
    LET places == searchPlacesByType(outcome)
        a == Observe(Merge(st.agg, places), places)
    IN  IF st.pc = "await1" THEN Strategy1(a, st.agg.i)
        ELSE IF st.pc = "await2" THEN Strategy2(a, st.agg.i)
        ELSE FilterAndReturn(a)

\* Search results that pass the filters of findSmallOnlineRetailers
KeptResults ==
    <<SearchResult(Ov.u_klean, Ov.t_klean, JStr(Ov.d_klean)),
      SearchResult(Ov.u_hydro, Ov.t_hydro, JStr(Ov.d_hydro)),
      SearchResult(Ov.u_barn, Ov.t_barn, JStr(Ov.d_klean))>>

\* Three open stores of allowed types
ThreeStores ==
    <<CHOOSE p \in RankPool : p.id = "r1", CHOOSE p \in RankPool : p.id = "r4",
      CHOOSE p \in RankPool : p.id = "r9">>

\* What the places provider answers to one search
PlacesAnswers ==
    {[kind |-> "network_error"], [kind |-> "http_error"],
     [kind |-> "ok", places |-> JArr(ThreeStores)],
     [kind |-> "ok", places |-> JArr(SubSeq(ThreeStores, 2, 2))]}

\* What the search provider answers
SearchAnswers ==
    {[kind |-> "network_error"], [kind |-> "http_error"],
     [kind |-> "ok", web |-> JObj([results |-> JArr(KeptResults)])],
     [kind |-> "ok", web |-> JObj([results |-> JArr(SubSeq(KeptResults, 1, 2))])]}

\* What the fetch of a result page gives: a timeout, an error status, a page
\* with a price
ResultPages ==
    {Page("timeout", << >>, << >>, JNull, JNull, JNull),
     Page("http_error", << >>, << >>, JNull, JNull, JNull),
     Page("ok", <<JsonLd(Sv.product, Offer(JStr(Sv.a29_99)))>>, << >>,
          JNull, JNull, JNull)}

Request(productName, prefs, currentSite) ==
    [action |-> "analyzeProduct", productName |-> productName,
     userPreferences |-> prefs, currentSite |-> currentSite]

\* userPreferences of a request: absent, or the object the content script
\* builds from the stored settings
UserPreferences ==
    {JUndefined}
    \cup {JObj([avoidedBrands |-> JArr(<< >>), location |-> loc,
                supportLocal |-> JBool(s), sustainableProducts |-> JBool(TRUE)]) :
             s \in BOOLEAN, loc \in {JNull, Loc(3777, -12242)}}

AnthropicKeys == {JUndefined, JStr(Hv.key_placeholder), JStr(Hv.key)}

InitHandler ==
    /\ pc = "message"
    /\ \E prefs \in UserPreferences, key \in AnthropicKeys :
          handler = [request |-> Request(Ov.steel_bottle, prefs, JStr(Pv.site_target)),
                     anthropicKey |-> key, braveKey |-> JStr(Ov.key),
                     completionCalls |-> 0, completion |-> Idle,
                     analysis |-> JUndefined,
                     localRun |-> Idle, placesAnswers |-> << >>,
                     localAlternatives |-> Idle,
                     onlineRun |-> Idle, searchAnswer |-> Idle, pages |-> << >>,
                     onlineAlternatives |-> Idle,
                     responses |-> << >>, response |-> Idle]
    /\ currentYear = 2026
    /\ companyData = Idle
    /\ userPreferences = Idle
    /\ scoreResult = Idle
    /\ avoidCheckResult = Idle
    /\ text = Idle
    /\ parseResult = Idle
    /\ agg = Idle
    /\ scrape = Idle
    /\ online = Idle
    /\ panel = Idle
    /\ stats = Idle
    /\ popup = Idle

HandlerOthers ==
    <<companyData, userPreferences, scoreResult, avoidCheckResult, text,
      currentYear, parseResult, agg, scrape, online, panel, stats, popup>>

\* sendResponse(value)
SendResponse(h, value) ==
    [pc |-> "responded",
     handler |-> [h EXCEPT !.response = value, !.responses = Append(@, value)]]

\* [...localAlternatives, ...onlineAlternatives]
CombineAlternatives_OnlineFirst(localAlternatives, onlineAlternatives) ==
    onlineAlternatives \o localAlternatives

CombineAlternatives(localAlternatives, onlineAlternatives) ==
    localAlternatives \o onlineAlternatives

\* userPreferences = {} when the caller passed undefined
OrEmptyObject(prefs) == IF prefs.t = "undefined" THEN EmptyObject ELSE prefs.v

\* Step 3 at the return of findSmallOnlineRetailers: the combination and the
\* response
Respond(h, st) ==
    LET h1 == [h EXCEPT !.onlineRun = st.online,
                        !.onlineAlternatives = st.online.returned]
    IN  SendResponse(h1,
            Put(h1.analysis, "localAlternatives",
                CombineAlternatives(h1.localAlternatives, h1.onlineAlternatives)))

\* Step 3 with findSmallOnlineRetailers at st: suspended with it, or on
ContinueOnline(h, st) ==
    IF st.pc = "online_returned" THEN Respond(h, st)
    ELSE [pc |-> "await_online", handler |-> [h EXCEPT !.onlineRun = st]]

\* Step 3 from onlineAlternatives = [] to the first await inside
\* findSmallOnlineRetailers
StartOnline(h) ==
    ContinueOnline([h EXCEPT !.onlineAlternatives = << >>],
                   FindSmallOnlineRetailersStart(
                       OnlineCall(h.request.productName, h.braveKey)))

\* Step 2 with findLocalAlternatives at st: suspended with it, or on to step 3
ContinueLocal(h, st) ==
    IF st.pc = "returned"
    THEN StartOnline([h EXCEPT !.localRun = Idle,
                               !.localAlternatives = st.agg.result])
    ELSE [pc |-> "await_local", handler |-> [h EXCEPT !.localRun = st]]

\* The then callback from its first line to its first await
ThenCallback(h, analysis) ==
    LET h1 == [h EXCEPT !.analysis = analysis, !.localAlternatives = << >>]
        prefs == h.request.userPreferences
    IN  IF prefs.t = "undefined" THEN SendResponse(h1, [error |-> "TypeError"])
        ELSE IF prefs.v.supportLocal # JBool(FALSE)
        THEN ContinueLocal(h1, CallFindLocalAlternatives(
                                   analysis, prefs.v.location,
                                   h.request.currentSite))
        ELSE StartOnline(h1)

\* The listener and analyzeProduct up to the completion request; without a
\* key analyzeProduct throws and the catch callback responds
OnMessage ==
    /\ pc = "message"
    /\ handler.request.action = "analyzeProduct"
    /\ \E next \in
            {IF ApiKeyMissing(handler.anthropicKey)
             THEN SendResponse(handler, [error |-> Hv.key_missing])
             ELSE [pc |-> "await_completion",
                   handler |-> [handler EXCEPT !.completionCalls = @ + 1]]} :
          pc' = next.pc /\ handler' = next.handler
    /\ UNCHANGED HandlerOthers

\* The completion request settles: analyzeProduct to its end, then the catch
\* callback, or the then callback up to its first await
AnalysisSettled ==
    /\ pc = "await_completion"
    /\ \E outcome \in CompletionOutcomes :
          \E settled \in {AnalyzeProductSettles(
                              outcome,
                              OrEmptyObject(handler.request.userPreferences),
                              currentYear)} :
             \E next \in
                  {IF settled.kind = "rejected"
                   THEN SendResponse([handler EXCEPT !.completion = outcome],
                                     [error |-> settled.message])
                   ELSE ThenCallback([handler EXCEPT !.completion = outcome],
                                     settled.value)} :
                pc' = next.pc /\ handler' = next.handler
    /\ UNCHANGED HandlerOthers

\* A search of findLocalAlternatives is answered
PlacesSearchSettled ==
    /\ pc = "await_local"
    /\ \E outcome \in PlacesAnswers :
          \E next \in
               {ContinueLocal([handler EXCEPT !.placesAnswers = Append(@, outcome.kind)],
                              AfterPlacesSearch(handler.localRun, outcome))} :
             pc' = next.pc /\ handler' = next.handler
    /\ UNCHANGED HandlerOthers

\* The search of findSmallOnlineRetailers is answered
WebSearchSettled ==
    /\ pc = "await_online"
    /\ handler.onlineRun.pc = "await_search"
    /\ \E answer \in SearchAnswers :
          \E next \in
               {ContinueOnline([handler EXCEPT !.searchAnswer = answer.kind],
                               AfterSearch(handler.onlineRun.online, answer))} :
             pc' = next.pc /\ handler' = next.handler
    /\ UNCHANGED HandlerOthers

\* The fetch of scrapePriceFromPage is answered
PageFetchSettled ==
    /\ pc = "await_online"
    /\ handler.onlineRun.pc = "await_scrape"
    /\ \E page \in ResultPages :
          \E next \in
               {ContinueOnline([handler EXCEPT !.pages = Append(@, page)],
                               AfterScrape(handler.onlineRun.online,
                                           scrapePriceFromPage(page)))} :
             pc' = next.pc /\ handler' = next.handler
    /\ UNCHANGED HandlerOthers

NextHandler ==
    \/ OnMessage
    \/ AnalysisSettled
    \/ PlacesSearchSettled
    \/ WebSearchSettled
    \/ PageFetchSettled

SpecHandler == InitHandler /\ [][NextHandler]_vars

(***************************************************************************)
(* The content script: detection timers, the MutationObserver of           *)
(* initialize, injectSidePanel and its awaits, the analysis request and    *)
(* the rendering of its response.  The page holds the containers with id   *)
(* vinegar-sidepanel-container in document order; getElementById gives     *)
(* the element of the first of them.                                       *)
(***************************************************************************)
MaxUrlChanges == 1

\* Texts of the content script and of the sample pages
Wv ==
    [url_bottle |-> "https://www.amazon.com/dp/B0BOTTLE",
     url_lamp |-> "https://www.amazon.com/dp/B0LAMP",
     bottle |-> "Steel Water Bottle", lamp |-> "Desk Lamp",
     site |-> "Amazon",
     rate_limit |-> "Too many requests. Please try again in a moment.",
     parse_trouble |-> "Unable to analyze product. Using basic information.",
     unavailable |-> "Unable to analyze product. Please try again later.",
     unknown |-> "Unknown",
     fallback_concern |-> "Unable to analyze - API unavailable",
     fallback_benefit |-> "Supporting local and ethical businesses helps build stronger communities, promotes fair labor practices, and reduces environmental impact.",
     error_explanation |-> "Exploring alternatives helps support local economies.",
     explanation |-> "Exploring alternatives helps support diverse business ownership and local economies.",
     network_error |-> "NETWORK_ERROR: Could not connect to Anthropic API. Check your internet connection."]

Urls == {Wv.url_bottle, Wv.url_lamp}

\* detectAndExtractProduct on the page at url: every sample page is a
\* product page of amazon.com
detectAndExtractProduct(url) ==
    [name |-> IF url = Wv.url_bottle THEN Wv.bottle ELSE Wv.lamp,
     price |-> IF url = Wv.url_bottle THEN "$24.99" ELSE "$39.00",
     site |-> Wv.site]

\* obj[field], undefined when the object has no such property
Prop(obj, field) == IF field \in DOMAIN obj THEN obj[field] ELSE JUndefined

\* !value for the values of this section, whose strings are not sequences
Not(x) ==
    \/ x.t \in {"undefined", "null"}
    \/ x.t = "string" /\ x.v = ""
    \/ x.t = "number" /\ x.v \in {0, NaN}
    \/ x.t = "boolean" /\ ~x.v

\* a || b
Or(a, b) == IF Not(a) THEN b ELSE a

getFallbackAnalysis ==
    [parentCompany |-> JStr(Wv.unknown),
     ethicalScore |-> JNum(50),
     concerns |-> JArr(<<Wv.fallback_concern>>),
     productCategory |-> JStr("General"),
     alternativeTypes |-> JArr(<<"Local businesses", "Sustainable options",
                                 "Fair trade alternatives">>),
     costBenefitAnalysis |-> JStr(Wv.fallback_benefit),
     suggestedStoreKeywords |-> JArr(<<"local", "sustainable", "ethical">>)]

\* element.innerHTML = ... on the element of the first container; nothing
\* when the page has no container (getElementById gives null)
SetElement(p, element, content) ==
    IF p.containers = << >> THEN p
    ELSE [p EXCEPT !.containers[1][element] = content]

showAnalysisLoading(p, isLoading) ==
    IF isLoading THEN SetElement(p, "companyInfo", [kind |-> "loading"]) ELSE p

showAnalysisError(p, message) ==
    SetElement(p, "companyInfo", [kind |-> "error", message |-> message])

\* The company-info block: the warning of an avoided brand, the parent
\* company, the score as interpolated into "${analysis.alignmentScore}/100",
\* the concerns and the score breakdown
updateCompanyAnalysis(p, analysis) ==
    SetElement(p, "companyInfo",
               [kind |-> "analysis",
                avoidWarning |-> ~Not(Prop(analysis, "isOnAvoidList")),
                parentCompany |-> Prop(analysis, "parentCompany"),
                alignmentScore |-> Prop(analysis, "alignmentScore"),
                concerns |-> IF Not(Prop(analysis, "concerns")) THEN << >>
                             ELSE analysis.concerns.v,
                scoreBreakdown |-> IF Not(Prop(analysis, "scoreBreakdown"))
                                   THEN << >>
                                   ELSE analysis.scoreBreakdown.v])

\* The cost-benefit block; the sample texts hold no brace or bracket and at
\* most three sentences, which are shown as one paragraph
updateCostBenefitAnalysis(p, analysisText) ==
    SetElement(p, "costBenefit",
               IF Not(analysisText) \/ analysisText.v \in {"undefined", "null"}
               THEN Wv.explanation
               ELSE analysisText.v)

\* Largest r with r * r <= n
Isqrt(n) == CHOOSE r \in 0..n : r * r <= n /\ (r + 1) * (r + 1) > n

\* isValidCoordinates on the values of an alternative: typeof lat === 'number'
\* and typeof lon === 'number' come first
ValidCoordinates(lat, lon) ==
    /\ lat.t = "number"
    /\ lon.t = "number"
    /\ isValidCoordinates(lat.v, lon.v)

\* Distance in tenths of a mile between coordinates in hundredths of a
\* degree, NaN when an operand is not a number.  For the distances of the
\* samples (a few miles) the haversine formula is R times the length of
\* (dLat, cos(lat1) * dLon) in radians: a hundredth of a degree is 0.691 mi
\* and cos(lat1) is taken at the latitude of the sample location, 0.79.
calculateDistance(lat1, lon1, lat2, lon2) ==
    IF \E x \in {lat1, lon1, lat2, lon2} : x.t # "number" THEN NaN
    ELSE LET dLat == lat2.v - lat1.v
             dLon == lon2.v - lon1.v
         IN  (691 * Isqrt(10000 * dLat * dLat + 6241 * dLon * dLon)) \div 10000

\* Math.round(x / y) for x >= 0, y > 0
RoundDiv(x, y) == (2 * x + y) \div (2 * y)

formatDistance(distance) ==
    IF distance # NaN /\ distance < 1 THEN [text |-> "< 0.1 mi"]
    ELSE [text |-> "mi", tenths |-> distance]

categorizeDistance(distance) ==
    IF distance # NaN /\ distance < 50 THEN "< 5 mi"
    ELSE IF distance # NaN /\ distance < 200 THEN "5-20 mi"
    ELSE IF distance # NaN /\ distance < 500 THEN "20-50 mi"
    ELSE "> 50 mi"

getDistanceBonus(distance) ==
    IF distance # NaN /\ distance < 100 THEN 20
    ELSE IF distance # NaN /\ distance < 250 THEN 10
    ELSE 0

\* The body of the forEach of displayRealAlternatives
Annotate(userLocation, alt) ==
    LET distance == calculateDistance(JNum(userLocation.lat), JNum(userLocation.lon),
                                      Prop(alt, "lat"), Prop(alt, "lon"))
        avgSpeed == IF distance # NaN /\ distance < 50 THEN 25 ELSE 35
        travelTimeMinutes == IF distance = NaN THEN NaN
                             ELSE RoundDiv(6 * distance, avgSpeed)
    IN  [f \in DOMAIN alt \cup {"distance", "distanceLabel", "distanceCategory",
                                "distanceBonus", "travelTime", "travelTimeLabel"} |->
            CASE f = "distance" -> JNum(distance)
              [] f = "distanceLabel" -> formatDistance(distance)
              [] f = "distanceCategory" -> JStr(categorizeDistance(distance))
              [] f = "distanceBonus" -> JNum(getDistanceBonus(distance))
              [] f = "travelTime" -> JNum(travelTimeMinutes)
              [] f = "travelTimeLabel" ->
                    IF travelTimeMinutes # NaN /\ travelTimeMinutes < 60
                    THEN [text |-> "min", n |-> travelTimeMinutes]
                    ELSE [text |-> "hr",
                          n |-> IF travelTimeMinutes = NaN THEN NaN
                                ELSE RoundDiv(travelTimeMinutes, 60)]
              [] OTHER -> alt[f]]

\* a.distance || 999, in tenths of a mile
DistanceKey(alt) == IF Not(alt.distance) THEN 9990 ELSE alt.distance.v

\* Array.prototype.sort with (a.distance || 999) - (b.distance || 999): stable
RECURSIVE SortByDistance(_)
SortByDistance(alternatives) ==
    IF alternatives = << >> THEN << >>
    ELSE LET rest == SortByDistance(Tail(alternatives))
             first == Head(alternatives)
             before == SelectSeq(rest, LAMBDA a : DistanceKey(a) < DistanceKey(first))
             after == SelectSeq(rest, LAMBDA a : DistanceKey(a) >= DistanceKey(first))
         IN  before \o <<first>> \o after

\* The fixed online alternatives of displayRealAlternatives
SustainableShops ==
    <<[name |-> JStr("Package Free Shop"), type |-> JStr("sustainable"),
       url |-> JStr("https://packagefreeshop.com"), isReal |-> JBool(FALSE)],
      [name |-> JStr("EarthHero"), type |-> JStr("sustainable"),
       url |-> JStr("https://earthhero.com"), isReal |-> JBool(FALSE)],
      [name |-> JStr("Ten Thousand Villages"), type |-> JStr("ethical"),
       url |-> JStr("https://tenthousandvillages.com"), isReal |-> JBool(FALSE)],
      [name |-> JStr("Etsy (Sustainable Sellers)"), type |-> JStr("ethical"),
       url |-> JStr("https://www.etsy.com/c/craft-supplies-and-tools/home-and-hobby/sustainable-living"),
       isReal |-> JBool(FALSE)]>>

\* displayRealAlternatives(localAlternatives, alternativeTypes), up to the
\* first await of updateImpactStats; distanceCalls keeps the destination
\* arguments of its calls of calculateDistance
displayRealAlternatives(p, localAlternatives) ==
    IF p.containers = << >> THEN p
    ELSE LET located == ~Not(p.userLocation)
             annotated ==
                 IF located
                 THEN SortByDistance(
                          [i \in 1..Len(localAlternatives) |->
                              Annotate(p.userLocation, localAlternatives[i])])
                 ELSE localAlternatives
             onlineCount == IF Len(annotated) < 3 THEN 4 ELSE 2
             allAlternatives == annotated \o SubSeq(SustainableShops, 1, onlineCount)
         IN  [p EXCEPT
                !.currentAlternatives = allAlternatives,
                !.distanceCalls =
                    IF located
                    THEN [i \in 1..Len(localAlternatives) |->
                             [lat |-> Prop(localAlternatives[i], "lat"),
                              lon |-> Prop(localAlternatives[i], "lon")]]
                    ELSE << >>,
                !.containers[1].alternativesList =
                    IF annotated = << >> THEN [kind |-> "none_found"]
                    ELSE [kind |-> "cards", cards |-> allAlternatives],
                !.containers[1].mapButton =
                    IF annotated = << >> THEN @
                    ELSE IF located THEN "flex" ELSE "none",
                !.impactUpdates =
                    IF annotated = << >> THEN @
                    ELSE Append(@, [pc |-> "await_get",
                                    alternativesCount |-> Len(allAlternatives)])]

\* The answers of the background script to the analysis of a product
LocalStore(data) ==
    [name |-> JStr(IF data.name = Wv.bottle THEN "Bottle Works" ELSE "Lamp House"),
     type |-> JStr("local"), lat |-> JNum(3778), lon |-> JNum(-12241),
     product |-> JStr(data.name)]

OnlineRetailer(data) ==
    [name |-> JStr(IF data.name = Wv.bottle THEN "Hydro Goods" ELSE "Bright Co"),
     type |-> JStr("small-business"),
     url |-> JStr(IF data.name = Wv.bottle THEN "https://hydrogoods.com/bottle"
                  ELSE "https://brightco.com/lamp"),
     hasPrice |-> JBool(FALSE), product |-> JStr(data.name)]

AlternativeLists(data) ==
    {<< >>, <<LocalStore(data)>>, <<OnlineRetailer(data)>>,
     <<LocalStore(data), OnlineRetailer(data)>>}

ParentCompanyOf(data) ==
    IF data.name = Wv.bottle THEN "Acme Outdoor Group" ELSE "Lumen Holdings"

AnalysisResponse(data, alternatives) ==
    [parentCompany |-> JStr(ParentCompanyOf(data)),
     alignmentScore |-> JNum(70),
     concerns |-> JArr(<< >>),
     scoreBreakdown |-> JArr(<<[reason |-> "Large corporation", change |-> -30]>>),
     isOnAvoidList |-> JBool(FALSE),
     impactExplanation |-> JStr(Wv.explanation),
     localAlternatives |-> JArr(alternatives)]

ErrorMessages == {"API_RATE_LIMIT", "PARSE_ERROR", Wv.network_error}

\* What the callback of sendMessage receives: chrome.runtime.lastError set,
\* {error} or the analysis
Responses(data) ==
    {[lastError |-> TRUE]}
    \cup {[lastError |-> FALSE, response |-> [error |-> JStr(e)]] : e \in ErrorMessages}
    \cup {[lastError |-> FALSE, response |-> AnalysisResponse(data, alts)] :
             alts \in AlternativeLists(data)}

StoredLocations == {JNull, Loc(3777, -12242)}

NewContainer ==
    [productName |-> JNull, companyInfo |-> [kind |-> "initial"],
     costBenefit |-> "", alternativesList |-> [kind |-> "initial"],
     mapButton |-> "none"]

\* The content script after initialize() ran on a loaded product page: one
\* checkForProduct timer is pending
InitPanel ==
    /\ pc = "content"
    /\ \E location \in StoredLocations :
          panel = [isPanelInjected |-> FALSE, productData |-> JNull,
                   userLocation |-> JNull, currentAlternatives |-> << >>,
                   url |-> Wv.url_bottle, lastUrl |-> Wv.url_bottle,
                   urlChanges |-> 0, storedLocation |-> location,
                   containers |-> << >>, timers |-> 1, injections |-> << >>,
                   requests |-> << >>, loads |-> 0,
                   impactData |-> JUndefined, impactUpdates |-> << >>,
                   distanceCalls |-> << >>, handled |-> << >>]
    /\ companyData = Idle
    /\ userPreferences = Idle
    /\ scoreResult = Idle
    /\ avoidCheckResult = Idle
    /\ text = Idle
    /\ currentYear = Idle
    /\ parseResult = Idle
    /\ agg = Idle
    /\ scrape = Idle
    /\ online = Idle
    /\ handler = Idle
    /\ stats = Idle
    /\ popup = Idle

PanelOthers ==
    <<pc, companyData, userPreferences, scoreResult, avoidCheckResult, text,
      currentYear, parseResult, agg, scrape, online, handler, stats, popup>>

\* s without its i-th element
Without(s, i) == SubSeq(s, 1, i - 1) \o SubSeq(s, i + 1, Len(s))

\* The page navigates to another product without a reload
Navigate ==
    /\ panel.urlChanges < MaxUrlChanges
    /\ \E url \in Urls \ {panel.url} :
          panel' = [panel EXCEPT !.url = url, !.urlChanges = @ + 1]
    /\ UNCHANGED PanelOthers

\* The callback of the MutationObserver when location.href changed
UrlChanged ==
    /\ panel.url # panel.lastUrl
    /\ panel' = [panel EXCEPT !.lastUrl = panel.url,
                              !.isPanelInjected = FALSE,
                              !.containers = IF @ = << >> THEN @ ELSE Tail(@),
                              !.timers = @ + 1]
    /\ UNCHANGED PanelOthers

\* The timer of checkForProduct fires: detection, then injectSidePanel up to
\* its first await
CheckForProduct ==
    /\ panel.timers > 0
    /\ panel' =
          IF panel.isPanelInjected
          THEN [panel EXCEPT !.timers = @ - 1]
          ELSE [panel EXCEPT
                  !.timers = @ - 1,
                  !.productData = detectAndExtractProduct(panel.url),
                  !.injections = Append(@, [data |-> detectAndExtractProduct(panel.url),
                                            pc |-> "await_settings"])]
    /\ UNCHANGED PanelOthers

\* injectSidePanel after chrome.storage.sync.get('settings')
SettingsLoaded ==
    /\ \E i \in 1..Len(panel.injections) :
          /\ panel.injections[i].pc = "await_settings"
          /\ panel' = [panel EXCEPT
                         !.userLocation = IF Not(panel.storedLocation) THEN @
                                          ELSE panel.storedLocation,
                         !.injections[i].pc = "await_html"]
    /\ UNCHANGED PanelOthers

\* injectSidePanel after the fetch of sidepanel.html and response.text(): the
\* container is appended to the body; a failed fetch ends in the catch block
HtmlLoaded ==
    /\ \E i \in 1..Len(panel.injections), ok \in BOOLEAN :
          /\ panel.injections[i].pc = "await_html"
          /\ panel' = IF ok
                      THEN [panel EXCEPT !.containers = Append(@, NewContainer),
                                         !.injections[i].pc = "await_settle"]
                      ELSE [panel EXCEPT !.injections = Without(@, i)]
    /\ UNCHANGED PanelOthers

\* analyzeProductWithAPI(data) up to the message to the background script
analyzeProductWithAPI(p, data) ==
    [showAnalysisLoading(p, TRUE) EXCEPT !.requests = Append(@, [data |-> data])]

\* initializePanelContent(data)
initializePanelContent(p, data) ==
    [analyzeProductWithAPI(SetElement(p, "productName", JStr(data.name)), data)
        EXCEPT !.loads = @ + 1]

\* injectSidePanel after the 100 ms pause: the panel content, the analysis
\* request, the timer of loadAlternatives and the flag
DomSettled ==
    /\ \E i \in 1..Len(panel.injections) :
          /\ panel.injections[i].pc = "await_settle"
          /\ panel' = [initializePanelContent(panel, panel.injections[i].data)
                          EXCEPT !.isPanelInjected = TRUE,
                                 !.injections = Without(@, i)]
    /\ UNCHANGED PanelOthers

\* The timer of loadAlternatives fires: the prompt for a location when none
\* is stored
loadAlternatives ==
    /\ panel.loads > 0
    /\ panel' = [(IF Not(panel.storedLocation)
                  THEN SetElement(panel, "alternativesList",
                                  [kind |-> "location_prompt"])
                  ELSE panel)
                    EXCEPT !.loads = @ - 1]
    /\ UNCHANGED PanelOthers

\* The branch of the callback for {error}
ErrorMessageFor(error) ==
    IF error = JStr("API_RATE_LIMIT") THEN Wv.rate_limit
    ELSE IF error = JStr("PARSE_ERROR") THEN Wv.parse_trouble
    ELSE Wv.unavailable

\* The callback of sendMessage in analyzeProductWithAPI
ResponseCallback(p, answer) ==
    IF answer.lastError
    THEN updateCostBenefitAnalysis(
             updateCompanyAnalysis(showAnalysisError(p, Wv.unavailable),
                                   getFallbackAnalysis),
             getFallbackAnalysis.costBenefitAnalysis)
    ELSE IF ~Not(Prop(answer.response, "error"))
    THEN updateCostBenefitAnalysis(
             updateCompanyAnalysis(
                 showAnalysisError(p, ErrorMessageFor(answer.response.error)),
                 getFallbackAnalysis),
             Or(Prop(getFallbackAnalysis, "impactExplanation"),
                Or(Prop(getFallbackAnalysis, "costBenefitAnalysis"),
                   JStr(Wv.error_explanation))))
    ELSE LET shown == updateCostBenefitAnalysis(
                          updateCompanyAnalysis(p, answer.response),
                          Or(Prop(answer.response, "impactExplanation"),
                             Or(Prop(answer.response, "costBenefitAnalysis"),
                                JStr(Wv.explanation))))
         IN  IF ~Not(Prop(answer.response, "localAlternatives"))
                /\ Len(answer.response.localAlternatives.v) > 0
             THEN displayRealAlternatives(shown, answer.response.localAlternatives.v)
             ELSE shown

\* The background script answers a pending analysis request
ResponseArrives ==
    /\ \E i \in 1..Len(panel.requests) :
          \E answer \in Responses(panel.requests[i].data) :
             panel' = [ResponseCallback(panel, answer)
                          EXCEPT !.requests = Without(@, i),
                                 !.handled = <<[data |-> panel.requests[i].data,
                                                answer |-> answer]>>]
    /\ UNCHANGED PanelOthers

\* updateImpactStats after chrome.storage.local.get('impactData'): the
\* counters are raised on the object that was read
ImpactDataLoaded ==
    /\ \E i \in 1..Len(panel.impactUpdates) :
          /\ panel.impactUpdates[i].pc = "await_get"
          /\ \E impact \in {IF Not(panel.impactData)
                             THEN [alternativesViewed |-> 0,
                                   sessionsWithAlternatives |-> 0]
                             ELSE panel.impactData.v} :
                panel' = [panel EXCEPT
                            !.impactUpdates[i] =
                                [pc |-> "await_set",
                                 impact |-> [alternativesViewed |->
                                                impact.alternativesViewed
                                                + panel.impactUpdates[i].alternativesCount,
                                             sessionsWithAlternatives |->
                                                impact.sessionsWithAlternatives + 1]]]
    /\ UNCHANGED PanelOthers

\* updateImpactStats: chrome.storage.local.set({ impactData: impact })
ImpactDataSaved ==
    /\ \E i \in 1..Len(panel.impactUpdates) :
          /\ panel.impactUpdates[i].pc = "await_set"
          /\ panel' = [panel EXCEPT
                         !.impactData = JObj(panel.impactUpdates[i].impact),
                         !.impactUpdates = Without(@, i)]
    /\ UNCHANGED PanelOthers

NextPanel ==
    \/ Navigate
    \/ UrlChanged
    \/ CheckForProduct
    \/ SettingsLoaded
    \/ HtmlLoaded
    \/ DomSettled
    \/ loadAlternatives
    \/ ResponseArrives
    \/ ImpactDataLoaded
    \/ ImpactDataSaved

SpecPanel == InitPanel /\ [][NextPanel]_vars

(***************************************************************************)
(* The background script on PRODUCT_DETECTED: handleProductDetected reads  *)
(* stats from chrome.storage.local, adds 3 and writes the object back, and *)
(* then sets the badge of the sender's tab.  Each await is a step; several *)
(* runs of the handler are in progress when messages arrive close together.*)
(***************************************************************************)
MaxMessages == 3

\* sender.tab?.id of the messages: from a tab, or from a page without a tab
SenderTabs == {JUndefined, JNum(7), JNum(8)}

\* Stored stats when the first message arrives: none, or those written before
StoredStats ==
    {JUndefined, JObj([alternativesFound |-> 0]), JObj([alternativesFound |-> 6])}

\* result.stats || { alternativesFound: 0 }
StatsOrDefault(stored) == IF Not(stored) THEN [alternativesFound |-> 0] ELSE stored.v

\* sender.tab?.id is a number within (0, 2147483647)
ValidTabId(tabId) ==
    /\ tabId.t = "number"
    /\ tabId.v > 0
    /\ tabId.v < 2147483647

InitStats ==
    /\ pc = "background"
    /\ \E stored \in StoredStats :
          stats = [stored |-> stored, before |-> StatsOrDefault(stored).alternativesFound,
                   received |-> 0, runs |-> << >>, badgeText |-> {},
                   badgeColor |-> {}]
    /\ companyData = Idle
    /\ userPreferences = Idle
    /\ scoreResult = Idle
    /\ avoidCheckResult = Idle
    /\ text = Idle
    /\ currentYear = Idle
    /\ parseResult = Idle
    /\ agg = Idle
    /\ scrape = Idle
    /\ online = Idle
    /\ handler = Idle
    /\ panel = Idle
    /\ popup = Idle

StatsOthers ==
    <<pc, companyData, userPreferences, scoreResult, avoidCheckResult, text,
      currentYear, parseResult, agg, scrape, online, handler, panel, popup>>

\* onMessage with type PRODUCT_DETECTED: handleProductDetected up to
\* chrome.storage.local.get('stats')
ProductDetected ==
    /\ stats.received < MaxMessages
    /\ \E tabId \in SenderTabs :
          stats' = [stats EXCEPT !.received = @ + 1,
                                 !.runs = Append(@, [pc |-> "await_get",
                                                     tabId |-> tabId])]
    /\ UNCHANGED StatsOthers

\* The read is answered: stats.alternativesFound += 3 on the object read,
\* then chrome.storage.local.set({ stats })
StatsLoaded ==
    /\ \E i \in 1..Len(stats.runs) :
          /\ stats.runs[i].pc = "await_get"
          /\ stats' = [stats EXCEPT
                         !.runs[i] =
                             [pc |-> "await_set", tabId |-> stats.runs[i].tabId,
                              stats |-> [alternativesFound |->
                                            StatsOrDefault(stats.stored).alternativesFound + 3]]]
    /\ UNCHANGED StatsOthers

\* The write is done; the badge follows for a sender with a valid tab id
StatsSaved ==
    /\ \E i \in 1..Len(stats.runs) :
          /\ stats.runs[i].pc = "await_set"
          /\ stats' = [stats EXCEPT
                         !.stored = JObj(stats.runs[i].stats),
                         !.runs = IF ValidTabId(stats.runs[i].tabId)
                                  THEN [@ EXCEPT ![i] = [pc |-> "await_tab",
                                                         tabId |-> stats.runs[i].tabId]]
                                  ELSE Without(@, i)]
    /\ UNCHANGED StatsOthers

\* chrome.tabs.get answers: the tab exists, or the call rejects and the inner
\* catch ends the run
TabChecked ==
    /\ \E i \in 1..Len(stats.runs), exists \in BOOLEAN :
          /\ stats.runs[i].pc = "await_tab"
          /\ stats' = [stats EXCEPT
                         !.runs = IF exists
                                  THEN [@ EXCEPT ![i].pc = "await_badge_text"]
                                  ELSE Without(@, i)]
    /\ UNCHANGED StatsOthers

\* chrome.action.setBadgeText is done, or rejects for a tab closed meanwhile
BadgeTextSet ==
    /\ \E i \in 1..Len(stats.runs), exists \in BOOLEAN :
          /\ stats.runs[i].pc = "await_badge_text"
          /\ stats' = IF exists
                      THEN [stats EXCEPT
                              !.badgeText = @ \cup {stats.runs[i].tabId.v},
                              !.runs[i].pc = "await_badge_color"]
                      ELSE [stats EXCEPT !.runs = Without(@, i)]
    /\ UNCHANGED StatsOthers

\* chrome.action.setBadgeBackgroundColor is done, or rejects
BadgeColorSet ==
    /\ \E i \in 1..Len(stats.runs), exists \in BOOLEAN :
          /\ stats.runs[i].pc = "await_badge_color"
          /\ stats' = [stats EXCEPT
                         !.badgeColor = IF exists THEN @ \cup {stats.runs[i].tabId.v}
                                        ELSE @,
                         !.runs = Without(@, i)]
    /\ UNCHANGED StatsOthers

NextStats ==
    \/ ProductDetected
    \/ StatsLoaded
    \/ StatsSaved
    \/ TabChecked
    \/ BadgeTextSet
    \/ BadgeColorSet

SpecStats == InitStats /\ [][NextStats]_vars

(***************************************************************************)
(* The popup script: saveSettings, addBrand, removeBrand and saveLocation  *)
(* on the settings object of chrome.storage.sync.  An operation suspends   *)
(* at its awaits; a step runs it from one await to the next.               *)
(***************************************************************************)
MaxOps == 3

\* Values typed into the brand input
BrandInputs == {<<"N","x">>, <<"n","x"," ">>, <<" ">>}

\* The location object of saveLocation (its timestamp left out)
SavedLocation(lat, lon, display, zipCode) ==
    [t |-> "object", lat |-> lat, lon |-> lon, display |-> display,
     zipCode |-> zipCode]

PopupLocations ==
    {SavedLocation(3777, -12242, "ZIP 94103", JStr("94103")),
     SavedLocation(4075, -7399, "New York, NY", JNull)}

DEFAULT_SETTINGS ==
    [supportLocal |-> JBool(TRUE), sustainableProducts |-> JBool(TRUE),
     avoidedBrands |-> JArr(<< >>), location |-> JNull]

\* settings in chrome.storage.sync when the popup opens
StoredSettings ==
    {JUndefined, JObj(DEFAULT_SETTINGS)}
    \cup {JObj([DEFAULT_SETTINGS EXCEPT !.location = l,
                                        !.avoidedBrands = JArr(<<<<"N","x">>>>)]) :
             l \in PopupLocations}

\* result.settings || DEFAULT_SETTINGS, the object of the popup included
SettingsOrDefault(p) == IF Not(p.stored) THEN p.defaults ELSE p.stored.v

\* settings.avoidedBrands || [] of getAvoidedBrands
getAvoidedBrands(p) ==
    IF Not(Prop(SettingsOrDefault(p), "avoidedBrands")) THEN << >>
    ELSE SettingsOrDefault(p).avoidedBrands.v

\* The popup after loadSettings and loadLocation
InitPopup ==
    /\ pc = "popup"
    /\ \E stored \in StoredSettings :
          popup = [stored |-> stored, defaults |-> DEFAULT_SETTINGS,
                   toggleLocal |-> TRUE, toggleSustainable |-> TRUE,
                   brandsList |-> IF Not(stored) THEN << >>
                                  ELSE stored.v.avoidedBrands.v,
                   brandInput |-> << >>, runs |-> << >>, started |-> 0,
                   lastLocation |-> IF Not(stored) THEN JNull
                                    ELSE stored.v.location]
    /\ companyData = Idle
    /\ userPreferences = Idle
    /\ scoreResult = Idle
    /\ avoidCheckResult = Idle
    /\ text = Idle
    /\ currentYear = Idle
    /\ parseResult = Idle
    /\ agg = Idle
    /\ scrape = Idle
    /\ online = Idle
    /\ handler = Idle
    /\ panel = Idle
    /\ stats = Idle

PopupOthers ==
    <<pc, companyData, userPreferences, scoreResult, avoidCheckResult, text,
      currentYear, parseResult, agg, scrape, online, handler, panel, stats>>

\* The settings object that saveSettings, addBrand and removeBrand build
ToggleSettings(supportLocal, sustainableProducts, brands) ==
    [supportLocal |-> JBool(supportLocal),
     sustainableProducts |-> JBool(sustainableProducts),
     avoidedBrands |-> JArr(brands)]

\* The user flips a toggle; the change listener calls saveSettings, which
\* reads both toggles and awaits getAvoidedBrands
ToggleChanged ==
    /\ popup.started < MaxOps
    /\ \E toggle \in {"toggleLocal", "toggleSustainable"} :
          \E flipped \in {[popup EXCEPT ![toggle] = ~@]} :
             popup' = [flipped EXCEPT
                         !.started = @ + 1,
                         !.runs = Append(@, [op |-> "saveSettings",
                                             pc |-> "await_brands",
                                             supportLocal |-> flipped.toggleLocal,
                                             sustainableProducts |->
                                                 flipped.toggleSustainable])]
    /\ UNCHANGED PopupOthers

\* The user types a brand and clicks Add: addBrand up to getAvoidedBrands; an
\* empty name returns at once
AddBrandClicked ==
    /\ popup.started < MaxOps
    /\ \E value \in BrandInputs :
          popup' = IF TrimSpaces(value) = << >>
                   THEN [popup EXCEPT !.started = @ + 1, !.brandInput = value]
                   ELSE [popup EXCEPT
                           !.started = @ + 1,
                           !.brandInput = value,
                           !.runs = Append(@, [op |-> "addBrand",
                                               pc |-> "await_brands",
                                               brandName |-> TrimSpaces(value)])]
    /\ UNCHANGED PopupOthers

\* The user clicks the remove button of a brand tag: removeBrand up to
\* getAvoidedBrands
RemoveBrandClicked ==
    /\ popup.started < MaxOps
    /\ \E k \in 1..Len(popup.brandsList) :
          popup' = [popup EXCEPT
                      !.started = @ + 1,
                      !.runs = Append(@, [op |-> "removeBrand",
                                          pc |-> "await_brands",
                                          brandName |-> popup.brandsList[k]])]
    /\ UNCHANGED PopupOthers

\* saveLocation(lat, lon, display, zipCode) up to its read of the settings
SaveLocationCalled ==
    /\ popup.started < MaxOps
    /\ \E location \in PopupLocations :
          popup' = [popup EXCEPT
                      !.started = @ + 1,
                      !.runs = Append(@, [op |-> "saveLocation",
                                          pc |-> "await_get",
                                          location |-> location])]
    /\ UNCHANGED PopupOthers

\* brands.some(b => b.toLowerCase() === brandLower)
AlreadyListed(brands, brandName) ==
    \E k \in 1..Len(brands) : toLowerCase(brands[k]) = toLowerCase(brandName)

\* getAvoidedBrands answers the run: the settings object is built and
\* chrome.storage.sync.set is called.  Without stored settings the array is
\* the one of DEFAULT_SETTINGS, which the push of addBrand extends.
BrandsLoaded ==
    /\ \E i \in 1..Len(popup.runs) :
          LET run == popup.runs[i]
              brands == getAvoidedBrands(popup)
              pushed == Append(brands, run.brandName)
          IN  /\ run.pc = "await_brands"
              /\ popup' =
                    CASE run.op = "saveSettings" ->
                            [popup EXCEPT
                               !.runs[i] =
                                   [op |-> run.op, pc |-> "await_set",
                                    settings |-> ToggleSettings(run.supportLocal,
                                                                run.sustainableProducts,
                                                                brands)]]
                      [] run.op = "addBrand" /\ AlreadyListed(brands, run.brandName) ->
                            [popup EXCEPT !.runs = Without(@, i)]
                      [] run.op = "addBrand" /\ ~AlreadyListed(brands, run.brandName) ->
                            [popup EXCEPT
                               !.defaults = IF Not(popup.stored)
                                            THEN [@ EXCEPT !.avoidedBrands = JArr(pushed)]
                                            ELSE @,
                               !.runs[i] =
                                   [op |-> run.op, pc |-> "await_set",
                                    brands |-> pushed,
                                    settings |-> ToggleSettings(popup.toggleLocal,
                                                                popup.toggleSustainable,
                                                                pushed)]]
                      [] run.op = "removeBrand" ->
                            LET updatedBrands ==
                                    SelectSeq(brands, LAMBDA b : b # run.brandName)
                            IN  [popup EXCEPT
                                   !.runs[i] =
                                       [op |-> run.op, pc |-> "await_set",
                                        brands |-> updatedBrands,
                                        settings |-> ToggleSettings(popup.toggleLocal,
                                                                    popup.toggleSustainable,
                                                                    updatedBrands)]]
    /\ UNCHANGED PopupOthers

\* The read of saveLocation is answered: settings.location is assigned on
\* the object read, DEFAULT_SETTINGS itself when nothing is stored
LocationSettingsLoaded ==
    /\ \E i \in 1..Len(popup.runs) :
          LET run == popup.runs[i]
              settings == [f \in DOMAIN SettingsOrDefault(popup) \cup {"location"} |->
                              IF f = "location" THEN run.location
                              ELSE SettingsOrDefault(popup)[f]]
          IN  /\ run.pc = "await_get"
              /\ popup' = [popup EXCEPT
                             !.defaults = IF Not(popup.stored) THEN settings ELSE @,
                             !.runs[i] = [op |-> run.op, pc |-> "await_set",
                                          location |-> run.location,
                                          settings |-> settings]]
    /\ UNCHANGED PopupOthers

\* chrome.storage.sync.set({ settings }) is done; the brand operations then
\* redraw the list, addBrand clears the input
SettingsSaved ==
    /\ \E i \in 1..Len(popup.runs) :
          LET run == popup.runs[i]
          IN  /\ run.pc = "await_set"
              /\ popup' = [popup EXCEPT
                             !.stored = JObj(run.settings),
                             !.brandsList = IF run.op \in {"addBrand", "removeBrand"}
                                            THEN run.brands ELSE @,
                             !.brandInput = IF run.op = "addBrand" THEN << >> ELSE @,
                             !.lastLocation = IF run.op = "saveLocation"
                                              THEN run.location ELSE @,
                             !.runs = Without(@, i)]
    /\ UNCHANGED PopupOthers

NextPopup ==
    \/ ToggleChanged
    \/ AddBrandClicked
    \/ RemoveBrandClicked
    \/ SaveLocationCalled
    \/ BrandsLoaded
    \/ LocationSettingsLoaded
    \/ SettingsSaved

SpecPopup == InitPopup /\ [][NextPopup]_vars

(***************************************************************************)
(* Properties of the scorer.                                               *)
(***************************************************************************)
RECURSIVE SumChanges(_)
SumChanges(breakdown) ==
    IF breakdown = << >> THEN 0
    ELSE Head(breakdown).change + SumChanges(Tail(breakdown))

RECURSIVE SumBonuses(_)
SumBonuses(breakdown) ==
    IF breakdown = << >> THEN 0
    ELSE (IF Head(breakdown).change > 0 THEN Head(breakdown).change ELSE 0)
         + SumBonuses(Tail(breakdown))

Clamp0To100(x) == IF x < 0 THEN 0 ELSE IF x > 100 THEN 100 ELSE x

\* The positions of the breakdown entries whose reason is one of rs
EntriesOf(breakdown, rs) == {i \in DOMAIN breakdown : breakdown[i].reason \in rs}

Scored == pc = "scored"

\* C1: the returned score is clamp(100 + sum of the 'change' values of the
\* returned breakdown, 0, 100), hence within [0,100] and recomputable from
\* the breakdown alone.
C1_ScoreIsClampedSum ==
    Scored =>
        /\ scoreResult.score = Clamp0To100(100 + SumChanges(scoreResult.breakdown))
        /\ scoreResult.score \in 0..100

\* C1 witness: a scored analysis whose bonuses run past 100, so the clamp acts
C1_Witness ==
    /\ Scored
    /\ 100 + SumChanges(scoreResult.breakdown) > 100
    /\ scoreResult.score = 100

\* parentCompany case-insensitively contains some avoided brand
ParentContainsAvoided ==
    \E i \in DOMAIN userPreferences.avoidedBrands :
        includes(toLowerCase(companyData.parentCompany),
                 toLowerCase(userPreferences.avoidedBrands[i]))

\* some subsidiary case-insensitively contains some avoided brand
SubsidiaryContainsAvoided ==
    \E i \in DOMAIN userPreferences.avoidedBrands :
        \E k \in DOMAIN companyData.subsidiaries :
            includes(toLowerCase(companyData.subsidiaries[k]),
                     toLowerCase(userPreferences.avoidedBrands[i]))

Minus30Entries ==
    {i \in EntriesOf(scoreResult.breakdown, {Reasons.AVOID}) :
        scoreResult.breakdown[i].change = -30}
Minus25Entries ==
    {i \in EntriesOf(scoreResult.breakdown, {Reasons.AVOID_PARENT}) :
        scoreResult.breakdown[i].change = -25}

\* C2 as stated: whenever parentCompany contains an avoided brand, the
\* breakdown has a -30 'on your avoid list' entry and the score is at most 70
\* whatever bonuses apply.
C2_Original ==
    (Scored /\ ParentContainsAvoided) =>
        /\ Minus30Entries # {}
        /\ scoreResult.score <= 70

\* C2 amended: whenever parentCompany contains an avoided brand, the
\* breakdown has exactly one avoid-list penalty entry (-30, or -25 when an
\* earlier-listed avoided brand is contained in a subsidiary only), and the
\* score is at most 100 plus that penalty plus the bonuses of the breakdown,
\* capped at 100: at most 70 (75) when no bonus applies.
C2_Amended ==
    (Scored /\ ParentContainsAvoided) =>
        /\ Cardinality(Minus30Entries \cup Minus25Entries) = 1
        /\ \A i \in Minus30Entries \cup Minus25Entries :
              scoreResult.score <=
                 Min(100, 100 + scoreResult.breakdown[i].change
                              + SumBonuses(scoreResult.breakdown))
        /\ includes(toLowerCase(companyData.parentCompany),
                    toLowerCase(userPreferences.avoidedBrands[1]))
              => Minus30Entries # {}

\* C2 witness: an avoided parent company whose bonuses lift the score past 70
C2_Witness ==
    /\ Scored
    /\ ParentContainsAvoided
    /\ Minus30Entries # {}
    /\ scoreResult.score > 70

\* C3: a parent match always gives -30, a subsidiary match gives -25 only
\* when no avoided brand is contained in parentCompany, whatever the order of
\* avoidedBrands, and at most one of the two penalties is applied.
C3_ParentMatchTakesPriority ==
    Scored =>
        /\ ParentContainsAvoided
              => (Cardinality(Minus30Entries) = 1 /\ Minus25Entries = {})
        /\ (~ParentContainsAvoided /\ SubsidiaryContainsAvoided)
              => (Cardinality(Minus25Entries) = 1 /\ Minus30Entries = {})
        /\ (~ParentContainsAvoided /\ ~SubsidiaryContainsAvoided)
              => (Minus30Entries = {} /\ Minus25Entries = {})
        /\ Cardinality(Minus30Entries \cup Minus25Entries) <= 1

OwnershipEnum ==
    {Cv.own_publicly_traded, Cv.own_private_equity, Cv.own_family_owned, Cv.own_co_op,
     Cv.own_b_corp, kw.unknown}
OwnershipReasons == {Reasons.PUBLIC_MEGA, Reasons.PRIVATE_EQUITY, Reasons.FAMILY, Reasons.COOP}

\* The ownership entry the rule is said to give: <<reason, change>> or << >>
OwnershipExpected(sz, ow) ==
    IF ow = Cv.own_publicly_traded /\ sz = Cv.size_mega_corp THEN <<Reasons.PUBLIC_MEGA, -10>>
    ELSE IF ow = Cv.own_private_equity THEN <<Reasons.PRIVATE_EQUITY, -5>>
    ELSE IF ow = Cv.own_family_owned THEN <<Reasons.FAMILY, 10>>
    ELSE IF ow \in {Cv.own_co_op, Cv.own_b_corp} THEN <<Reasons.COOP, 15>>
    ELSE << >>

\* C4: for the ownershipType enum values exactly one ownership entry is
\* applied, in priority order: publicly-traded with mega-corp -10, else
\* private-equity -5, else family-owned +10, else co-op or b-corp +15, else
\* none.
C4_OwnershipPriority ==
    (Scored /\ companyData.ownershipType \in OwnershipEnum) =>
        LET exp == OwnershipExpected(companyData.companySize,
                                     companyData.ownershipType)
            got == EntriesOf(scoreResult.breakdown, OwnershipReasons)
        IN  IF exp = << >> THEN got = {}
            ELSE /\ Cardinality(got) = 1
                 /\ \A i \in got :
                       /\ scoreResult.breakdown[i].reason = exp[1]
                       /\ scoreResult.breakdown[i].change = exp[2]

\* The four concern categories: <<reason, change, keywords>>
ConcernCategories ==
    {<<Reasons.LABOR, -10, {kw.labor, kw.worker, kw.wage}>>,
     <<Reasons.ENV, -10, {kw.environment, kw.pollution, kw.climate}>>,
     <<Reasons.ANTICOMP, -5, {kw.monopoly, kw.anti_competitive, kw.antitrust}>>,
     <<Reasons.POLITICAL, -5, {kw.political, kw.lobbying, kw.controversy}>>}

\* The concerns that contain one of the keywords, case-insensitively
ConcernsMentioning(kws) ==
    {i \in DOMAIN companyData.factualConcerns :
        \E k \in kws : includes(toLowerCase(companyData.factualConcerns[i]), k)}

\* C5: the breakdown holds at most one entry for each of the four concern
\* categories, and a category's entry (with its penalty) is present iff at
\* least one concern contains one of the category's keywords.
C5_ConcernCategoryOnce ==
    Scored =>
        \A cat \in ConcernCategories :
            LET got == EntriesOf(scoreResult.breakdown, {cat[1]})
            IN  /\ Cardinality(got) <= 1
                /\ (got # {}) <=> (ConcernsMentioning(cat[3]) # {})
                /\ \A i \in got : scoreResult.breakdown[i].change = cat[2]

\* C5 witness: two concerns both match the labor keywords, one labor entry
C5_Witness ==
    /\ Scored
    /\ Cardinality(ConcernsMentioning({kw.labor, kw.worker, kw.wage})) = 2
    /\ Cardinality(EntriesOf(scoreResult.breakdown, {Reasons.LABOR})) = 1

CertReasons == {Reasons.CERT_BCORP, Reasons.CERT_FAIR, Reasons.CERT_CARBON, Reasons.CERT_LIVING}

\* C6: with the sustainable-products preference false the certifications
\* have no effect: the result equals the result for the same analysis
\* without certifications (so any two analyses that differ only in their
\* certifications score alike), and no certification entry is present.
C6_CertificationsIgnored ==
    (Scored /\ userPreferences.sustainableProducts = "false") =>
        LET bare == calculateAlignmentScore(
                        [companyData EXCEPT !.certifications = << >>],
                        userPreferences)
        IN  /\ scoreResult.score = bare.score
            /\ scoreResult.breakdown = bare.breakdown
            /\ EntriesOf(scoreResult.breakdown, CertReasons) = {}

\* C6 witness: a certified company scored under a false preference
C6_Witness ==
    /\ Scored
    /\ userPreferences.sustainableProducts = "false"
    /\ \E i \in DOMAIN companyData.certifications :
          includes(toLowerCase(companyData.certifications[i]), kw.b_corp_sp)

\* some avoided brand contains the first word of the parent company's name
\* or of a subsidiary's name
BrandContainsFirstWord ==
    \E i \in DOMAIN userPreferences.avoidedBrands :
        LET brandLower == toLowerCase(userPreferences.avoidedBrands[i])
        IN  \/ includes(brandLower,
                        FirstWord(toLowerCase(companyData.parentCompany)))
            \/ \E k \in DOMAIN companyData.subsidiaries :
                  includes(brandLower,
                           FirstWord(toLowerCase(companyData.subsidiaries[k])))

HasAvoidEntry == Minus30Entries \cup Minus25Entries # {}

\* C7 as stated: isOnAvoidList is true exactly when the breakdown contains
\* an avoid-list penalty entry; with no avoided brands the routine returns
\* false and an empty reason.
C7_Original ==
    Scored =>
        /\ avoidCheckResult.isOnAvoidList <=> HasAvoidEntry
        /\ userPreferences.avoidedBrands = << >>
              => (~avoidCheckResult.isOnAvoidList
                  /\ avoidCheckResult.reason = AV_NONE)

\* C7 amended: isOnAvoidList is true exactly when the breakdown contains an
\* avoid-list penalty entry or some avoided brand contains the first word of
\* the parent company's or of a subsidiary's name; with no avoided brands the
\* routine returns false and an empty reason.
C7_Amended ==
    Scored =>
        /\ avoidCheckResult.isOnAvoidList
              <=> (HasAvoidEntry \/ BrandContainsFirstWord)
        /\ userPreferences.avoidedBrands = << >>
              => (~avoidCheckResult.isOnAvoidList
                  /\ avoidCheckResult.reason = AV_NONE)

\* C7 witness: the detection flags a company the scorer does not penalise
C7_Witness ==
    /\ Scored
    /\ avoidCheckResult.isOnAvoidList
    /\ ~HasAvoidEntry

(***************************************************************************)
(* Properties of the parser.                                               *)
(***************************************************************************)
Parsed == pc = "parsed"

\* The text inside an optional opening code fence (``` with an optional json
\* language tag) and an optional closing code fence, whitespace dropped
Unwrapped(s) ==
    LET a == trim(s)
        b == IF a # << >> /\ a[1] = TokFence
             THEN IF Len(a) >= 2 /\ a[2] \in {TokWord(Tv.w_json), TokWord(Tv.w_JSON)}
                  THEN SubSeq(a, 3, Len(a))
                  ELSE Tail(a)
             ELSE a
        c == trim(b)
        d == IF c # << >> /\ c[Len(c)] = TokFence THEN SubSeq(c, 1, Len(c) - 1) ELSE c
    IN  trim(d)

\* The unwrapped text is a JSON object
IsJsonObject(s) ==
    JSONParse(Unwrapped(s)).ok /\ JSONParse(Unwrapped(s)).value.t = "object"

\* The members of the JSON object of the text
InputObject == JSONParse(Unwrapped(text)).value.v

HasParentCompany(obj) ==
    /\ "parentCompany" \in DOMAIN obj
    /\ obj["parentCompany"] \notin {JNull, JStr(<< >>), JNum(0)}

ListFields ==
    {"factualConcerns", "certifications", "subsidiaries", "suggestedStoreTypes",
     "suggestedStoreNames"}

\* C8: parseClaudeResponse fails, with the single error PARSE_ERROR, exactly
\* when the unwrapped text is not valid JSON or has no non-empty
\* parentCompany; otherwise it returns the record with the five list fields
\* present (empty when absent from the input) and companySize and
\* ownershipType defaulting to 'unknown'.  The hallucination screening never
\* makes a valid input fail.
C8_ParseErrorExactly ==
    Parsed =>
        /\ parseResult.ok <=> (IsJsonObject(text) /\ HasParentCompany(InputObject))
        /\ ~parseResult.ok => parseResult.error = "PARSE_ERROR"
        /\ parseResult.ok =>
              /\ parseResult.value["parentCompany"] = InputObject["parentCompany"]
              /\ \A f \in ListFields :
                    /\ f \in DOMAIN parseResult.value
                    /\ parseResult.value[f] # JUndefined
                    /\ f \notin DOMAIN InputObject
                          => parseResult.value[f] = JArr(<< >>)
              /\ \A f \in {"companySize", "ownershipType"} :
                    /\ f \in DOMAIN parseResult.value
                    /\ f \notin DOMAIN InputObject
                          => parseResult.value[f] = JStr(kw.unknown)

\* C8 witness: a fenced text parses although the screening drops a concern and
\* the certifications are absent from the input
C8_Witness ==
    /\ Parsed
    /\ parseResult.ok
    /\ text[1] = TokFence
    /\ "certifications" \notin DOMAIN InputObject
    /\ "factualConcerns" \in DOMAIN InputObject
    /\ InputObject["factualConcerns"].t = "array"
    /\ Len(parseResult.value["factualConcerns"].v)
          < Len(InputObject["factualConcerns"].v)

\* The 4-digit year tokens of a string: four digits between word boundaries
YearTokens(s) ==
    {ParseInt4(s, i) : i \in
        {j \in 1..(Len(s) - 3) :
            /\ \A d \in 0..3 : IsDigit(s[j + d])
            /\ j = 1 \/ ~IsWordChar(s[j - 1])
            /\ j + 3 = Len(s) \/ ~IsWordChar(s[j + 4])}}

YearsInRange(s) == \A y \in YearTokens(s) : 1800 <= y /\ y <= currentYear

\* C9: after the screening every retained factualConcerns entry has its
\* 4-digit year tokens within [1800, current year]; an entry with a year
\* outside is discarded, and an entry (free of placeholder markers) whose
\* years are all in range is retained.
C9_YearScreening ==
    (Parsed /\ parseResult.ok /\ "factualConcerns" \in DOMAIN InputObject
        /\ InputObject["factualConcerns"].t = "array") =>
        LET given == InputObject["factualConcerns"].v
            kept == parseResult.value["factualConcerns"].v
        IN  /\ \A i \in DOMAIN kept : YearsInRange(kept[i].v)
            /\ \A i \in DOMAIN given :
                  (/\ given[i].t = "string"
                   /\ YearsInRange(given[i].v)
                   /\ ~includes(given[i].v, kw.example)
                   /\ ~includes(given[i].v, kw.placeholder))
                      => \E k \in DOMAIN kept : kept[k] = given[i]

(***************************************************************************)
(* Properties of the aggregator.                                           *)
(***************************************************************************)
IdsOf(places) == {places[k].id : k \in 1..Len(places)}

\* C10: after every merge of a run the merged list holds no two records with
\* the same provider id, holds every id the provider returned so far, is the
\* list of the first records returned for each id in the order the ids were
\* first discovered, and the seen-set is exactly the set of ids in the list.
C10_MergedListIsDeduplicated ==
    pc \in {"await1", "await2", "await3", "returned"} =>
        /\ \A m, n \in 1..Len(agg.allPlaces) :
              agg.allPlaces[m].id = agg.allPlaces[n].id => m = n
        /\ IdsOf(agg.allPlaces) = agg.returnedIds
        /\ agg.allPlaces = agg.discovered
        /\ agg.seenPlaceIds = IdsOf(agg.allPlaces)

\* C10: one store-type search and one name search have been merged, the
\* second returned an id the first had returned, and the list holds it once.
C10_Witness ==
    /\ pc = "await2" /\ agg.i = 2
    /\ Len(OrEmpty(agg.analysis.suggestedStoreTypes)) = 1
    /\ agg.repeatedId
    /\ Len(agg.allPlaces) = 2
    /\ Cardinality(agg.returnedIds) = 2

Searching == pc \in {"await1", "await2", "await3"}
Returned == pc = "returned"

\* the run passed the location and key guards
Ran == (Searching \/ Returned) /\ ~NoLocation(agg.userLocation) /\ agg.apiKey

TermsOf(requests) == [k \in 1..Len(requests) |-> requests[k].textQuery]

IsPrefix(s, t) == Len(s) <= Len(t) /\ s = SubSeq(t, 1, Len(s))

FirstTwo(list) ==
    IF list.t = "array" THEN SubSeq(list.v, 1, Min(2, Len(list.v))) ELSE << >>

NonEmptyCategory == agg.productCategory.t = "string" /\ agg.productCategory.v # << >>

\* C11: the searches of a run are, in this order, the first two suggested
\* store types, the first two suggested store names and then the category;
\* a search is issued only when all earlier ones are answered and merged; the
\* category search is issued iff fewer than three places are merged after
\* the others and the category is non-empty; a run issues at most 5 searches.
C11_StrategiesInOrder ==
    (Searching \/ Returned) =>
        LET types == FirstTwo(agg.analysis.suggestedStoreTypes)
            names == FirstTwo(agg.analysis.suggestedStoreNames)
            issued == Len(agg.requests)
        IN /\ issued <= 5
           /\ IF NonEmptyCategory
              THEN IsPrefix(TermsOf(agg.requests),
                            types \o names \o <<agg.productCategory.v>>)
              ELSE IsPrefix(TermsOf(agg.requests), types \o names)
           /\ agg.answered = issued - (IF Searching THEN 1 ELSE 0)
           /\ pc = "await1" => issued <= Len(types)
           /\ pc = "await2" => Len(types) < issued /\ issued <= Len(types \o names)
           /\ pc = "await3" =>
                 /\ issued = Len(types \o names) + 1
                 /\ Len(agg.allPlaces) < 3 /\ NonEmptyCategory
           /\ (Returned /\ Ran) =>
                 /\ issued >= Len(types \o names)
                 /\ issued = Len(types \o names) =>
                       ~(Len(agg.allPlaces) < 3 /\ NonEmptyCategory)

\* C11: a run that issued and merged five searches, the category one last.
C11_Witness ==
    /\ Returned /\ Len(agg.requests) = 5 /\ agg.answered = 5
    /\ agg.requests[5].textQuery = agg.productCategory.v
    /\ Len(agg.allPlaces) >= 2

\* category 'Reusable Water Bottles', user at (37.77, -122.42), one suggested
\* store type 'sporting_goods_store', no suggested store name
WaterBottleScenario ==
    /\ agg.productCategory = JStr(Pv.cat_water_bottles)
    /\ agg.userLocation = Loc(3777, -12242)
    /\ agg.analysis.suggestedStoreTypes = JArr(<<Pv.term_sporting_goods>>)
    /\ agg.analysis.suggestedStoreNames = JArr(<< >>)
    /\ agg.apiKey

SportingGoodsQuery ==
    [textQuery |-> Pv.term_sporting_goods, latitude |-> 3777,
     longitude |-> -12242, radius |-> 5000]

WaterBottleQuery ==
    [textQuery |-> Pv.cat_water_bottles, latitude |-> 3777,
     longitude |-> -12242, radius |-> 5000]

\* C12 as stated: in the scenario the run issues exactly one search, with
\* radius 5000 and term 'sporting_goods_store', whatever the provider answers.
C12_Original ==
    (Returned /\ WaterBottleScenario) => agg.requests = <<SportingGoodsQuery>>

\* C12 amended: in the scenario the first search has radius 5000 and term
\* 'sporting_goods_store'; it is the only one exactly when its answer brings
\* at least three distinct places, and otherwise the category search, with
\* the same radius, is the second and last.
C12_Amended ==
    ((Searching \/ Returned) /\ WaterBottleScenario) =>
        /\ agg.requests \in {<<SportingGoodsQuery>>,
                             <<SportingGoodsQuery, WaterBottleQuery>>}
        /\ pc = "await1" => agg.requests = <<SportingGoodsQuery>>
        /\ pc = "await3" => Len(agg.allPlaces) < 3 /\ Len(agg.requests) = 2
        /\ Returned => (Len(agg.requests) = 1 <=> Cardinality(agg.returnedIds) >= 3
                                                  /\ agg.answered = 1)

\* C12: the scenario run returned after one search whose answer brought
\* three distinct places.
C12_Witness ==
    /\ Returned /\ WaterBottleScenario
    /\ agg.requests = <<SportingGoodsQuery>>
    /\ Len(agg.allPlaces) = 3

\* the dense-urban boxes: latitude from, to; longitude from, to
DenseUrbanBoxes ==
    {<<3720, 3790, -12260, -12170>>, <<4050, 4090, -7430, -7370>>,
     <<3370, 3430, -11870, -11810>>, <<4160, 4200, -8790, -8750>>,
     <<4220, 4250, -7130, -7090>>, <<4740, 4780, -12250, -12220>>}

InDenseUrbanBox(loc) ==
    \E b \in DenseUrbanBoxes :
        b[1] <= loc.lat /\ loc.lat <= b[2] /\ b[3] <= loc.lon /\ loc.lon <= b[4]

\* C13: every search of a run is centred on the user and uses one radius:
\* 5000 m when the user is inside or on the edge of a dense-urban box and
\* 10000 m otherwise; never another value such as 8000 m.
C13_OneRadiusPerRun ==
    (Searching \/ Returned) =>
        \A k \in 1..Len(agg.requests) :
            /\ agg.requests[k].radius =
                  (IF InDenseUrbanBox(agg.userLocation) THEN 5000 ELSE 10000)
            /\ agg.requests[k].latitude = agg.userLocation.lat
            /\ agg.requests[k].longitude = agg.userLocation.lon

\* C13: two searches of a run from the corner of a box, both with 5000 m.
C13_Witness ==
    /\ Returned /\ agg.userLocation = Loc(3720, -12260)
    /\ Len(agg.requests) = 2
    /\ agg.requests[1].radius = 5000 /\ agg.requests[2].radius = 5000

HasCoordinate ==
    /\ agg.userLocation.t = "object"
    /\ isValidCoordinates(agg.userLocation.lat, agg.userLocation.lon)

\* C14: with the API key configured and a store type suggested, a run issues
\* no search and returns the empty list exactly when the user coordinate is
\* absent; from every valid coordinate, latitude 0 and longitude 0 included,
\* it searches.
C14_NoOpExactlyWhenAbsent ==
    (Returned /\ agg.apiKey
        /\ FirstTwo(agg.analysis.suggestedStoreTypes) # << >>) =>
        /\ ~HasCoordinate => agg.requests = << >> /\ agg.result = << >>
        /\ HasCoordinate => agg.requests # << >>

(***************************************************************************)
(* Properties of filterAndScorePlaces.                                     *)
(***************************************************************************)
Ranked == Returned /\ agg.productCategory.t = "string"

LowerName(place) == toLowerCase(DisplayText(place))

CategoryHas(words) ==
    \E w \in words : includes(toLowerCase(agg.productCategory.v), w)

\* C15: no place the filter lets through is closed, carries a big-box name
\* or an irrelevant type; for a luggage, bag or travel category none has
\* furniture, sofa or couch in its name, and for a bottle or drinkware
\* category none is a plumber or a hardware store, also when the category
\* is both.
C15_NoDroppedCandidate ==
    Ranked =>
        \A k \in 1..Len(agg.filteredPlaces) :
            LET place == agg.filteredPlaces[k]
            IN /\ place.businessStatus \notin
                     {"CLOSED_PERMANENTLY", "CLOSED_TEMPORARILY"}
               /\ \A retailer \in bigBoxRetailers :
                     ~includes(LowerName(place), retailer)
               /\ Range(place.types) \cap irrelevantTypes = {}
               /\ CategoryHas({kw.luggage, kw.bag, kw.travel}) =>
                     \A w \in {kw.furniture, kw.sofa, kw.couch} :
                         ~includes(LowerName(place), w)
               /\ CategoryHas({kw.bottle, kw.drinkware}) =>
                     Range(place.types) \cap {"plumber", "hardware_store"} = {}

\* C26: the current-retailer rule drops a place only when its name
\* contains the name of the current retailer, case-insensitively: a place
\* that passes every other rule of the filter and whose name does not
\* contain it (a name whose first word occurs inside the retailer name, or
\* no display name at all) is among the filtered places.
C26_DroppedOnlyOnNameMatch ==
    Ranked =>
        \A k \in 1..Len(agg.allPlaces) :
            LET place == agg.allPlaces[k]
                categoryLower == toLowerCase(agg.productCategory.v)
            IN  (/\ KeepPlace(place, categoryLower, << >>)
                 /\ \/ Falsy(agg.currentSite)
                    \/ ~includes(LowerName(place), toLowerCase(agg.currentSite.v)))
                   => \E j \in 1..Len(agg.filteredPlaces) :
                         agg.filteredPlaces[j].placeId = place.id

\* position of a place of the output in the merged list
DiscoveryIndex(place) ==
    CHOOSE k \in 1..Len(agg.allPlaces) : agg.allPlaces[k].id = place.placeId

\* C16: the filtered places are in order of non-increasing relevanceScore,
\* places of equal score in the order of the merged list, and the run
\* returns the first three of them.
C16_StableDescendingTopThree ==
    Ranked =>
        LET out == agg.filteredPlaces
        IN /\ \A m, n \in 1..Len(out) :
                 m < n =>
                    \/ out[m].relevanceScore > out[n].relevanceScore
                    \/ /\ out[m].relevanceScore = out[n].relevanceScore
                       /\ DiscoveryIndex(out[m]) < DiscoveryIndex(out[n])
           /\ Len(agg.result) = Min(3, Len(out))
           /\ \A m \in 1..Len(agg.result) : agg.result[m] = out[m]

\* C16: four places pass the filter, the best was not discovered first, two
\* of equal score follow each other, and the fourth is cut off.
C16_Witness ==
    /\ Ranked /\ Len(agg.filteredPlaces) = 4 /\ Len(agg.result) = 3
    /\ DiscoveryIndex(agg.filteredPlaces[1]) = 4
    /\ agg.filteredPlaces[2].relevanceScore = agg.filteredPlaces[3].relevanceScore
    /\ agg.filteredPlaces[3].relevanceScore > agg.filteredPlaces[4].relevanceScore

\* the relevance table read as a set of pairs
RelevanceTable == {relevantTypes[k] : k \in DOMAIN relevantTypes}

ExpectedScore(place) ==
    LET has == {e \in RelevanceTable : e[1] \in Range(place.types)}
        strong == {e \in has : CategoryHas(e[2])}
    IN 10 * Cardinality(strong) + 2 * Cardinality(has \ strong)
       + (IF "store" \in Range(place.types) THEN 1 ELSE 0)

\* C17: the relevanceScore of a place that passed the filter is 10 for each
\* table type it has with a keyword in the lower-cased category, 2 for each
\* other table type it has, and 1 more when it has the type 'store'; for
\* 'Reusable Water Bottles' a sporting goods store comes before a place
\* whose only type is 'store'.
C17_AdditiveScore ==
    Ranked =>
        LET out == agg.filteredPlaces
        IN /\ \A m \in 1..Len(out) : out[m].relevanceScore = ExpectedScore(out[m])
           /\ agg.productCategory.v = Pv.cat_water_bottles =>
                 \A m, n \in 1..Len(out) :
                    (/\ "sporting_goods_store" \in Range(out[m].types)
                     /\ out[n].types = <<"store">>) => m < n

\* C17: for 'Reusable Water Bottles' a place that is only a store was
\* discovered first and comes last, after places scoring 13 and 11.
C17_Witness ==
    /\ Ranked /\ agg.productCategory.v = Pv.cat_water_bottles
    /\ Len(agg.filteredPlaces) = 3
    /\ agg.allPlaces[1].types = <<"store">>
    /\ agg.filteredPlaces[1].relevanceScore = 13
    /\ agg.filteredPlaces[2].relevanceScore = 11
    /\ agg.filteredPlaces[3].relevanceScore = 1
    /\ agg.filteredPlaces[3].types = <<"store">>


(***************************************************************************)
(* Properties of scrapePriceFromPage.                                      *)
(***************************************************************************)
\* Amount in cents of a returned price string, NaN when it carries none
PriceValue(price) ==
    IF price.v # << >> /\ Head(price.v) = "$"
    THEN ParseFloatString(Tail(price.v)) ELSE NaN

WithinSanityBound(price) ==
    /\ PriceValue(price) # NaN
    /\ PriceValue(price) >= 500
    /\ PriceValue(price) <= 100000

\* C20: every non-null price returned by scrapePriceFromPage is an amount
\* within [5, 1000] dollars, whether the JSON-LD Product offer or one of the
\* regular expressions produced it.
C20_PriceWithinSanityBound ==
    (pc = "scraped" /\ scrape.result.price # JNull)
        => WithinSanityBound(scrape.result.price)


(***************************************************************************)
(* Properties of findSmallOnlineRetailers.                                 *)
(***************************************************************************)
OnlineReturned == pc = "online_returned"

\* Position of a returned candidate in the search results of the provider
ResultIndex(candidate) ==
    CHOOSE k \in 1..Len(online.results) : online.results[k].url = candidate.url

OnDenylist(domain) ==
    \E entry \in MEGA_CORP_DOMAINS \cup irrelevantDomains : includes(domain, entry)

\* C19: findSmallOnlineRetailers returns at most 2 candidates, each made from
\* one of the first 8 search results; a candidate with a price precedes every
\* candidate without, candidates alike in hasPrice keep the order of the
\* search results, and no returned domain contains a denylist entry.
C19_TopTwoPricedFirst ==
    OnlineReturned =>
        LET r == online.returned
        IN  /\ Len(r) <= 2
            /\ \A i \in 1..Len(r) :
                  /\ \E k \in 1..Len(online.results) :
                        k <= 8 /\ online.results[k].url = r[i].url
                  /\ ~OnDenylist(Hostname(r[i].url))
            /\ \A i, j \in 1..Len(r) :
                  i < j =>
                     /\ ~(~r[i].hasPrice /\ r[j].hasPrice)
                     /\ r[i].hasPrice = r[j].hasPrice
                           => ResultIndex(r[i]) < ResultIndex(r[j])

\* C19 witness: a response of nine results whose seventh, eighth and ninth
\* pass the filters; the eighth has a price and is returned before the
\* seventh, which has none.
C19_Witness ==
    /\ OnlineReturned
    /\ Len(online.results) = 9
    /\ ~OnDenylist(Hostname(online.results[9].url))
    /\ Len(online.returned) = 2
    /\ online.returned[1].hasPrice /\ ~online.returned[2].hasPrice
    /\ ResultIndex(online.returned[1]) = 8
    /\ ResultIndex(online.returned[2]) = 7


(***************************************************************************)
(* Properties of the analyzeProduct handler.                               *)
(***************************************************************************)
SuccessfulResponse ==
    pc = "responded" /\ "localAlternatives" \in DOMAIN handler.response

\* C18: the alternatives of a successful response are the candidates
\* findLocalAlternatives gave (at most 3) followed by those
\* findSmallOnlineRetailers gave (at most 2), each list in its own order and
\* no online candidate before a local one.
C18_LocalThenOnline ==
    SuccessfulResponse =>
        LET alternatives == handler.response.localAlternatives
            nLocal == Len(handler.localAlternatives)
            nOnline == Len(handler.onlineAlternatives)
        IN  /\ nLocal <= 3 /\ nOnline <= 2
            /\ Len(alternatives) = nLocal + nOnline
            /\ \A i \in 1..nLocal :
                  /\ alternatives[i] = handler.localAlternatives[i]
                  /\ alternatives[i].type = "local"
            /\ \A i \in 1..nOnline :
                  /\ alternatives[nLocal + i] = handler.onlineAlternatives[i]
                  /\ alternatives[nLocal + i].type = "small-business"

\* C18 witness: a response that carries three local candidates and two online
\* candidates.
C18_Witness ==
    /\ SuccessfulResponse
    /\ Len(handler.localAlternatives) = 3
    /\ Len(handler.onlineAlternatives) = 2
    /\ Len(handler.response.localAlternatives) = 5


\* The completion call succeeded and the request carries the preferences
\* object the content script sends
AnalysedRequest ==
    /\ pc = "responded"
    /\ handler.analysis # JUndefined
    /\ handler.request.userPreferences.t = "object"

FailureKinds == {"network_error", "http_error"}

\* Every search of the places source failed
PlacesFailed ==
    /\ handler.placesAnswers # << >>
    /\ \A k \in 1..Len(handler.placesAnswers) :
          handler.placesAnswers[k] \in FailureKinds

WebSearchFailed == handler.searchAnswer \in FailureKinds

LocalPart(alternatives) == SelectSeq(alternatives, LAMBDA a : a.type = "local")
OnlinePart(alternatives) ==
    SelectSeq(alternatives, LAMBDA a : a.type = "small-business")

\* The k-th page fetched for a price failed or timed out
ScrapeFailed(k) == handler.pages[k].fetch # "ok"

\* The response holds the k-th scraped candidate, without a price
KeptUnpriced(k) ==
    LET candidates == OnlinePart(handler.response.localAlternatives)
    IN  \E i \in 1..Len(candidates) :
           /\ candidates[i].url = handler.onlineRun.alternatives[k].url
           /\ ~candidates[i].hasPrice

\* Number of candidates before the k-th in the order of the sort: the priced
\* ones, and the unpriced ones scraped earlier
Preceding(k) ==
    LET alts == handler.onlineRun.alternatives
    IN  Cardinality({j \in 1..Len(alts) : alts[j].hasPrice})
        + Cardinality({j \in 1..(k - 1) : ~alts[j].hasPrice})

\* What C21 says of the analysis record and of a source that failed
DegradesPerSource ==
    /\ "error" \notin DOMAIN handler.response
    /\ \A field \in DOMAIN handler.analysis :
          handler.response[field] = handler.analysis[field]
    /\ LocalPart(handler.response.localAlternatives) = handler.localAlternatives
    /\ OnlinePart(handler.response.localAlternatives) = handler.onlineAlternatives
    /\ PlacesFailed => handler.localAlternatives = << >>
    /\ WebSearchFailed => handler.onlineAlternatives = << >>

CredentialMissing ==
    handler.anthropicKey \in {JUndefined, JStr(<< >>), JStr(Hv.key_placeholder)}

\* The completion provider answered with the rate-limit status
RateLimited ==
    /\ handler.completion.kind = "status"
    /\ handler.completion.status = 429

\* A tagged failure {error}
TaggedFailure(response) == DOMAIN response = {"error"}

\* An analysis record with its alternatives
AnalysisWithAlternatives(response) ==
    /\ "error" \notin DOMAIN response
    /\ {"alignmentScore", "localAlternatives"} \subseteq DOMAIN response

\* C22: an analyzeProduct request is answered exactly once: sendResponse is
\* never called twice, it has been called once when no external call of the
\* request is pending, with an analysis carrying alternatives or with
\* {error}; the completion provider is called at most once, never when the
\* credential is missing, and a rate-limit status gives {error} after that
\* one call.
C22_ExactlyOneResponse ==
    /\ Len(handler.responses) <= 1
    /\ handler.completionCalls <= 1
    /\ pc \in {"message", "await_completion", "await_local", "await_online",
               "responded"}
    /\ pc # "responded" => handler.responses = << >>
    /\ pc = "responded" =>
          /\ Len(handler.responses) = 1
          /\ handler.responses[1] = handler.response
          /\ \/ TaggedFailure(handler.response)
             \/ AnalysisWithAlternatives(handler.response)
          /\ CredentialMissing =>
                /\ handler.completionCalls = 0
                /\ handler.response = [error |-> Hv.key_missing]
          /\ ~CredentialMissing => handler.completionCalls = 1
          /\ (handler.completionCalls = 1 /\ RateLimited) =>
                handler.response = [error |-> "API_RATE_LIMIT"]

\* C22 witness: the provider answered 429 and the request was answered once
\* with the rate-limit failure after a single completion call.
C22_Witness ==
    /\ pc = "responded"
    /\ handler.completionCalls = 1
    /\ RateLimited
    /\ handler.responses = <<[error |-> "API_RATE_LIMIT"]>>

(***************************************************************************)
(* Properties of the content script.                                       *)
(***************************************************************************)
\* The step is the callback of sendMessage handling a failure response of
\* the given classes while the page holds a panel
FailureHandled(classes) ==
    /\ Len(panel'.requests) < Len(panel.requests)
    /\ panel.containers # << >>
    /\ ~panel'.handled[1].answer.lastError
    /\ "error" \in DOMAIN panel'.handled[1].answer.response
    /\ panel'.handled[1].answer.response.error.v \in classes

\* The message of the failure class
MessageOfClass(error) ==
    CASE error = "API_RATE_LIMIT" -> Wv.rate_limit
      [] error = "PARSE_ERROR" -> Wv.parse_trouble
      [] OTHER -> Wv.unavailable

\* C23: when the content script has handled a failure response of the
\* completion provider, the analysis section shows the message of the
\* failure class (rate limit, parse trouble, otherwise the generic one) and
\* still shows it when the handler has finished.
C23_FailureMessageDisplayed ==
    [][FailureHandled(ErrorMessages) =>
          panel'.containers[1].companyInfo
             = [kind |-> "error",
                message |-> MessageOfClass(panel'.handled[1].answer.response.error.v)]]_vars

\* C24: on PARSE_ERROR and on a network failure the analysis presented is
\* the neutral default: parent company Unknown, alignment score 50 and the
\* generic impact explanation.
C24_NeutralDefaultPresented ==
    [][FailureHandled({"PARSE_ERROR", Wv.network_error}) =>
          /\ panel'.containers[1].companyInfo.kind = "analysis"
          /\ panel'.containers[1].companyInfo.parentCompany = JStr(Wv.unknown)
          /\ panel'.containers[1].companyInfo.alignmentScore = JNum(50)
          /\ panel'.containers[1].costBenefit = Wv.fallback_benefit]_vars

\* C25: calculateDistance is called only with coordinates that pass
\* isValidCoordinates, and an alternative without coordinates carries no
\* distance, distance label or travel time.
C25_DistanceOnlyWithCoordinates ==
    /\ \A k \in 1..Len(panel.distanceCalls) :
          ValidCoordinates(panel.distanceCalls[k].lat, panel.distanceCalls[k].lon)
    /\ \A k \in 1..Len(panel.currentAlternatives) :
          ~ValidCoordinates(Prop(panel.currentAlternatives[k], "lat"),
                            Prop(panel.currentAlternatives[k], "lon"))
             => DOMAIN panel.currentAlternatives[k]
                   \cap {"distance", "distanceLabel", "travelTime",
                         "travelTimeLabel"} = {}

\* C27: the page never holds more than one side-panel container.
C27_AtMostOneContainer == Len(panel.containers) <= 1

\* The product a container shows in its product-info block
ShownIn(container) == container.productName.v

\* C28: what a panel renders belongs to the product it shows: the analysis
\* is the one of that product (or the fallback), the cards are alternatives
\* of that product, and currentAlternatives holds alternatives of
\* productData only.
C28_RenderedForShownProduct ==
    /\ \A k \in 1..Len(panel.containers) :
          LET container == panel.containers[k]
          IN  container.productName # JNull =>
                 /\ container.companyInfo.kind = "analysis" =>
                        container.companyInfo.parentCompany
                           \in {JStr(Wv.unknown),
                                JStr(ParentCompanyOf([name |-> ShownIn(container)]))}
                 /\ container.alternativesList.kind = "cards" =>
                        \A c \in 1..Len(container.alternativesList.cards) :
                           Prop(container.alternativesList.cards[c], "product")
                              \in {JUndefined, JStr(ShownIn(container))}
    /\ panel.productData # JNull =>
          \A k \in 1..Len(panel.currentAlternatives) :
             Prop(panel.currentAlternatives[k], "product")
                \in {JUndefined, JStr(panel.productData.name)}

(***************************************************************************)
(* Properties of handleProductDetected.                                    *)
(***************************************************************************)
\* No run of the handler stands before its write of stats
StatsWritesDone ==
    \A i \in 1..Len(stats.runs) : stats.runs[i].pc \notin {"await_get", "await_set"}

\* C29: when n PRODUCT_DETECTED messages have been handled, in whatever
\* order the reads and writes of their handlers took place, the stored
\* stats.alternativesFound is 3n higher than before.
C29_NoLostUpdate ==
    StatsWritesDone =>
        StatsOrDefault(stats.stored).alternativesFound
           = stats.before + 3 * stats.received

(***************************************************************************)
(* Properties of the popup.                                                *)
(***************************************************************************)
\* settings.location as the content script and the background script read it
StoredLocation ==
    IF Not(popup.stored) THEN JNull
    ELSE Or(Prop(popup.stored.v, "location"), JNull)

\* C30: when the operations of the popup have finished, the stored location
\* is the one written by the most recent saveLocation (the one stored when
\* the popup opened, if there was none): saveSettings, addBrand and
\* removeBrand leave it unchanged.
C30_LocationKept ==
    popup.runs = << >> => StoredLocation = popup.lastLocation

=============================================================================
